---- MODULE Spec2Model ----
(***************************************************************************)
(* Model of the multi-daemon RPC client layer of coin_daemon_mcp           *)
(* (src/src/rpcClient.ts, src/src/errors.ts), of its configuration         *)
(* (src/src/config.ts) and of its registry of clients, the class           *)
(* CryptoDaemonMCP of src/src/mcpServer.ts.                                *)
(*                                                                         *)
(* Specifications: Spec, one caller of one client; SpecConc, two callers   *)
(* whose calls interleave; SpecClassify, mapRpcErrorToCustomError on its   *)
(* own; SpecValidate, the validation of config.ts on its own;              *)
(* SpecRegistry, the registry on its own; SpecTool, the execute-command    *)
(* tool calling the client; SpecProbes, two callers probing one client;    *)
(* SpecStartup, startMcpServer probing the registered daemons; SpecSend,    *)
(* two callers of sendCoins on one client whose wallet holds one coin.     *)
(*                                                                         *)
(* One RpcClient is shared by the callers in Callers; under Spec one of    *)
(* them invokes the client's operations, one after another.  Every async   *)
(* method of the client runs synchronously up to its next await, so one    *)
(* action of the model is one such run: from the resumption of a caller (a *)
(* fetch settling, a response body arriving, a backoff timer firing) up to *)
(* the next await or to the completion of the caller's operation.          *)
(***************************************************************************)
EXTENDS Integers, Sequences, FiniteSets, TLC

VARIABLES
    connectionState,  \* RpcClient._connectionState
    coinName,         \* RpcClient._coinName
    frame,            \* per caller: the operation in progress and where it is
    opsLeft,          \* per caller: operations it may still invoke
    probeCompleted,   \* history: some validateConnection has completed
    connects,         \* history: number of changes from disconnected to connected
    staleTimers,      \* timers of attempts that have ended, still pending
    classified,       \* one application of mapRpcErrorToCustomError on its own
    mcp,              \* the CryptoDaemonMCP registry and the configuration given to it
    validation        \* one application of validateDaemonConfig or validateConfig

vars == <<connectionState, coinName, frame, opsLeft, probeCompleted, connects,
          staleTimers, classified, mcp, validation>>

\* the variables of the RpcClient and of its callers
clientVars ==
    <<connectionState, coinName, frame, opsLeft, probeCompleted, connects, staleTimers>>

-----------------------------------------------------------------------------
(* Program constants and bounds *)

MAX_RETRIES == 3
RETRY_DELAY == 1000

\* operations a caller invokes in one run of the model
MaxOps == 3

Callers == {"c1", "c2"}

\* encoding of a numeric field that is absent (undefined) in a JSON value
Undefined == 0 - 1

-----------------------------------------------------------------------------
(* Error taxonomy: errors.ts.  An error value keeps its class, its message  *)
(* detail and the two numbers the numeric classes carry.                    *)

Err(cls, msg, x, y) == [cls |-> cls, msg |-> msg, x |-> x, y |-> y]

\* `null`: no error
NoError == Err("none", "", 0, 0)

CryptoDaemonError(message) ==
    Err("CryptoDaemonError", IF message = "undefined" THEN "" ELSE message, 0, 0)

RpcConnectionError(details) == Err("RpcConnectionError", details, 0, 0)

InsufficientFundsError(required, available) ==
    Err("InsufficientFundsError", "Insufficient funds", required, available)

InvalidAddressError(address) == Err("InvalidAddressError", address, 0, 0)

DaemonSyncError(blocks, networkBlocks) ==
    Err("DaemonSyncError", "Daemon not synced", blocks, networkBlocks)

WalletLockError == Err("WalletLockError", "Wallet is locked", 0, 0)

FeeEstimationError(details) == Err("FeeEstimationError", details, 0, 0)

\* errors that are not of the taxonomy: what fetch and response.json() reject with
FetchError == Err("FetchError", "ECONNREFUSED", 0, 0)
SyntaxError == Err("SyntaxError", "Unexpected token", 0, 0)
TypeError == Err("TypeError", "Cannot read properties of undefined", 0, 0)

\* `error instanceof CryptoDaemonError`: the base class and its subclasses
TaxonomyClasses ==
    {"CryptoDaemonError", "RpcConnectionError", "InsufficientFundsError",
     "InvalidAddressError", "TransactionError", "DaemonSyncError",
     "WalletLockError", "FeeEstimationError"}

InstanceOfCryptoDaemonError(error) == error.cls \in TaxonomyClasses

\* daemon error codes and messages that the model's daemon may answer with;
\* -32601 is the JSON-RPC "Method not found" of a method the daemon lacks
Codes == {-6, -5, -4, -3, -1, 12345, -32601}
Messages == {"undefined", "daemon is syncing", "other"}

\* message.includes('sync')
IncludesSync(message) == message \in {"daemon is syncing"}

\* mapRpcErrorToCustomError(code, message) as makeRequest calls it (no data).
\* message.includes on an absent message throws a TypeError, which leaves
\* makeRequest's attempt the same way a thrown taxonomy error does.
mapRpcErrorToCustomError(code, message) ==
    CASE code = -6 -> InsufficientFundsError(0, 0)
      [] code = -5 -> InvalidAddressError("unknown")
      [] code = -4 -> WalletLockError
      [] code = -3 -> FeeEstimationError(message)
      [] code = -1 ->
            IF message = "undefined" THEN TypeError
            ELSE IF IncludesSync(message) THEN DaemonSyncError(0, 0)
            ELSE CryptoDaemonError(message)
      [] OTHER -> CryptoDaemonError(message)

\* the codes mapRpcErrorToCustomError is applied to on its own: every code
\* from -MaxCode to MaxCode, 12345 and the ends of the 32-bit range
MaxCode == 8

ClassifyCodes == ((0 - MaxCode)..MaxCode) \cup {12345, 0 - 2147483647 - 1, 2147483647}

\* one application: the arguments, whether it is still to run ("ready"), has
\* returned or has thrown, and what it returned or threw
Classification(code, message, pc, out) ==
    [code |-> code, message |-> message, pc |-> pc, out |-> out]

\* no application is under way
NoClassification == Classification(0, "undefined", "idle", NoError)

-----------------------------------------------------------------------------
(* JSON values *)

\* JavaScript truthiness of a numeric field: undefined and 0 are falsy
Truthy(v) == v # Undefined /\ v # 0

\* `v || 0`
OrZero(v) == IF Truthy(v) THEN v ELSE 0

\* A result payload: three numeric fields, read per method as
\*   getinfo            a = blocks,      b = connections, c = headers
\*   getbalance         a = balance
\*   z_gettotalbalance  a = transparent, b = private
\*   getblockchaininfo  a = blocks,      b = headers,     c = difficulty
\*   getnetworkinfo     a = version,     b = connections
\*   any other method   a = the value returned (txid, operation id, ...)
Value(a, b, c) == [a |-> a, b |-> b, c |-> c]

NoValue == Value(Undefined, Undefined, Undefined)

ProbeMethod == "getinfo"

RpcMethod ==
    {"getinfo", "help", "stop", "getbalance", "listaddresses", "sendtoaddress",
     "z_sendmany", "z_shieldcoinbase", "getaddressbalance", "backupwallet",
     "z_importwallet", "z_listaddresses", "z_gettotalbalance", "getnetworkinfo",
     "getblockchaininfo"}

\* what the daemon may put in `result` for a method; a null result of getinfo
\* reads as {} (response.result || {}), i.e. as a payload with every field absent
ResultsOf(m) ==
    CASE m = "getinfo" ->
            {Value(b, c, h) : b \in {Undefined, 0, 100}, c \in {Undefined, 0, 8},
                              h \in {Undefined, 120}}
      [] m = "getblockchaininfo" ->
            {Value(b, 100, Undefined) : b \in {99, 100, 101}}
            \cup {Value(100, Undefined, Undefined)}
      [] OTHER -> {Value(1, Undefined, Undefined)}

\* the methods for which the model's daemon may also answer a body that has
\* neither an error nor a result: the two whose result the client reads a
\* member of right after makeRequest returned
MayOmitResult == {"z_gettotalbalance", "getnetworkinfo"}

-----------------------------------------------------------------------------
(* The retry loop: retryableRequest *)

\* variant: only a connection error is retried
isRetryableConnectionOnly(error) == error.cls = "RpcConnectionError"

\* variant: every error of the taxonomy is retried
isRetryableAnyTaxonomy(error) == InstanceOfCryptoDaemonError(error)

\* error instanceof RpcConnectionError || error instanceof DaemonSyncError
isRetryable(error) == error.cls \in {"RpcConnectionError", "DaemonSyncError"}

\* variant: the attempts are counted on the client, not in the call: the
\* limit reached by any call in flight ends the call that fails next
isLastAttemptShared(attempt) ==
    attempt = MAX_RETRIES \/ \E q \in Callers : frame[q].attempt = MAX_RETRIES

\* attempt === retries
isLastAttempt(attempt) == attempt = MAX_RETRIES

\* variant: the loop rethrows what the attempt threw
ThrownAsIs(error) == error

\* what the loop throws when it gives up on `error`
Thrown(error) ==
    IF InstanceOfCryptoDaemonError(error) THEN error
    ELSE RpcConnectionError(error.msg)

\* variant: the same delay after every attempt
BackoffDelayFlat(attempt) == RETRY_DELAY

\* the delay slept after a failed attempt that is retried
BackoffDelay(attempt) == RETRY_DELAY * attempt

\* the catch of one attempt (the closure given to retryableRequest): an
\* AbortError becomes a timeout RpcConnectionError, anything else is rethrown
AbortError == Err("AbortError", "The user aborted a request", 0, 0)

AttemptCatch(err) ==
    IF err.cls = "AbortError" THEN RpcConnectionError("Timeout") ELSE err

\* the statuses the model's daemon answers with
Statuses == {200, 404, 500}

\* variant: every response is taken for a good one
responseOkAlways(status) == TRUE

\* response.ok: a status from 200 to 299
responseOk(status) == status \in 200..299

\* `HTTP Error: ${response.status}` for a response that is not ok; the
\* status is kept in the error's first number
HttpError(status) == Err("RpcConnectionError", "HTTP Error", status, 0)

-----------------------------------------------------------------------------
(* Configuration: config.ts.  A string that the code takes apart (the       *)
(* endpoint) is a sequence of characters; the other fields are strings,     *)
(* "" standing for an empty or absent one (both are falsy).                 *)

\* a plain Error with its message and the value interpolated into it
JsError(message, detail) == [message |-> message, detail |-> detail]

NoJsError == JsError("", "")

\* parseInt's NaN
NaN == 0 - 1

DigitValue(ch) ==
    CASE ch = "0" -> 0 [] ch = "1" -> 1 [] ch = "2" -> 2 [] ch = "3" -> 3
      [] ch = "4" -> 4 [] ch = "5" -> 5 [] ch = "6" -> 6 [] ch = "7" -> 7
      [] ch = "8" -> 8 [] ch = "9" -> 9 [] OTHER -> NaN

\* String.prototype.split(':'): the pieces between the colons
RECURSIVE splitFrom(_, _, _)
splitFrom(chars, i, piece) ==
    IF i > Len(chars) THEN <<piece>>
    ELSE IF chars[i] = ":" THEN <<piece>> \o splitFrom(chars, i + 1, <<>>)
    ELSE splitFrom(chars, i + 1, Append(piece, chars[i]))

split(chars) == splitFrom(chars, 1, <<>>)

\* parseInt(chars, 10) of a string without sign or leading blanks: the value
\* of its leading digits, NaN when it starts with none
RECURSIVE parseIntFrom(_, _, _)
parseIntFrom(chars, i, acc) ==
    IF i > Len(chars) \/ DigitValue(chars[i]) = NaN
    THEN (IF i = 1 THEN NaN ELSE acc)
    ELSE parseIntFrom(chars, i + 1, acc * 10 + DigitValue(chars[i]))

parseInt(chars) == parseIntFrom(chars, 1, 0)

\* a DaemonConfig
Daemon(coin, nickname, endpoint) ==
    [coinName |-> coin, nickname |-> nickname, rpcEndpoint |-> endpoint,
     rpcUser |-> "user", rpcPassword |-> "secret"]

\* a DaemonConfig with the given credentials
DaemonWith(coin, nickname, endpoint, user, password) ==
    [Daemon(coin, nickname, endpoint) EXCEPT !.rpcUser = user, !.rpcPassword = password]

\* validateDaemonConfig: the error it throws, NoJsError when it returns
validateDaemonConfig(config) ==
    IF config.coinName = ""
    THEN JsError("Daemon configuration must include \"coinName\"", "")
    ELSE IF config.nickname = ""
    THEN JsError("Daemon configuration must include \"nickname\"", "")
    ELSE IF config.rpcEndpoint = <<>>
    THEN JsError("Daemon configuration must include \"rpcEndpoint\"", "")
    ELSE IF config.rpcUser = ""
    THEN JsError("Daemon configuration must include \"rpcUser\"", "")
    ELSE IF config.rpcPassword = ""
    THEN JsError("Daemon configuration must include \"rpcPassword\"", "")
    ELSE LET endpointParts == split(config.rpcEndpoint) IN
         IF Len(endpointParts) # 2
         THEN JsError("RPC endpoint must be in format \"host:port\"", "")
         ELSE LET port == parseInt(endpointParts[2]) IN
              IF port = NaN \/ port < 1 \/ port > 65535
              THEN JsError("Invalid RPC port number", "")
              ELSE NoJsError

\* variant: the loop of validateConfig without the check for duplicates
RECURSIVE validateDaemonsNoDuplicateCheck(_, _, _)
validateDaemonsNoDuplicateCheck(daemons, i, nicknames) ==
    IF i > Len(daemons) THEN NoJsError
    ELSE LET e == validateDaemonConfig(daemons[i]) IN
         IF e # NoJsError THEN e
         ELSE validateDaemonsNoDuplicateCheck(daemons, i + 1, nicknames)

\* the loop of validateConfig from the i-th daemon on, `nicknames` being the
\* set of the nicknames seen before it
RECURSIVE validateDaemons(_, _, _)
validateDaemons(daemons, i, nicknames) ==
    IF i > Len(daemons) THEN NoJsError
    ELSE LET e == validateDaemonConfig(daemons[i]) IN
         IF e # NoJsError THEN e
         ELSE IF daemons[i].nickname \in nicknames
         THEN JsError("Duplicate daemon nickname found", daemons[i].nickname)
         ELSE validateDaemons(daemons, i + 1, nicknames \cup {daemons[i].nickname})

\* a ServerConfig: `daemons` is an array or is absent
ServerConfig(hasDaemons, daemons) == [hasDaemons |-> hasDaemons, daemons |-> daemons]

\* variant: validateConfig without the check for an empty array
validateConfigAllowsEmpty(config) ==
    IF ~config.hasDaemons
    THEN JsError("Configuration must include a \"daemons\" array", "")
    ELSE validateDaemons(config.daemons, 1, {})

\* validateConfig: the error it throws, NoJsError when it returns
validateConfig(config) ==
    IF ~config.hasDaemons
    THEN JsError("Configuration must include a \"daemons\" array", "")
    ELSE IF Len(config.daemons) = 0
    THEN JsError("At least one daemon configuration is required", "")
    ELSE validateDaemons(config.daemons, 1, {})

\* one application of a function of config.ts on its own: the function, its argument (`daemon` or `config`),
\* whether it is still to run ("ready"), has returned or has thrown, and the
\* error it threw
Validation(fn, daemon, config, pc, error) ==
    [fn |-> fn, daemon |-> daemon, config |-> config, pc |-> pc, error |-> error]

\* no application is under way
NoValidation ==
    Validation("none", Daemon("", "", <<>>), ServerConfig(FALSE, <<>>), "idle", NoJsError)

-----------------------------------------------------------------------------
(* The registry: class CryptoDaemonMCP of mcpServer.ts.  Its Map is a       *)
(* sequence of entries in insertion order; the value of an entry is the     *)
(* DaemonConfig its RpcClient was built from.                               *)

Entry(key, value) == [key |-> key, value |-> value]

\* Map.prototype.set: the value of an existing key is replaced in place, a
\* new key is added at the end
MapSet(map, key, value) ==
    IF \E i \in 1..Len(map) : map[i].key = key
    THEN [i \in 1..Len(map) |->
             IF map[i].key = key THEN Entry(key, value) ELSE map[i]]
    ELSE Append(map, Entry(key, value))

\* Map.prototype.has
MapHas(map, key) == \E i \in 1..Len(map) : map[i].key = key

\* Array.from(map.keys())
MapKeys(map) == [i \in 1..Len(map) |-> map[i].key]

\* initializeClients: the Map after the daemons from the i-th on are set
RECURSIVE initializeClientsFrom(_, _, _)
initializeClientsFrom(daemons, i, map) ==
    IF i > Len(daemons) THEN map
    ELSE initializeClientsFrom(daemons, i + 1,
                               MapSet(map, daemons[i].nickname, daemons[i]))

initializeClients(config) == initializeClientsFrom(config.daemons, 1, <<>>)

\* what the last call of getDaemons or getClient gave: the array returned,
\* whether a client was returned, the error thrown
Answer(call, arg, names, found, error) ==
    [call |-> call, arg |-> arg, names |-> names, found |-> found, error |-> error]

NoAnswer == Answer("none", "", <<>>, FALSE, NoJsError)

\* where startMcpServer is: its stage ("none" when it was not called, "new"
\* before it runs, "connecting" while server.connect is awaited, "probing"
\* in the loop over the daemons, "started" when it has returned the server,
\* "failed" when it has thrown), the index of the daemon being probed, and
\* what it has done so far, in order
Startup(stage, next, events) == [stage |-> stage, next |-> next, events |-> events]

\* the registry: the configuration given, whether the constructor is still
\* to run ("new"), has returned ("ready") or has thrown ("failed"), the Map,
\* the number of RpcClient objects built, the error thrown, the last answer;
\* `startup` is the run of startMcpServer that made the registry
Registry(config, phase, clients, built, error, answer) ==
    [config |-> config, phase |-> phase, clients |-> clients, built |-> built,
     error |-> error, answer |-> answer, startup |-> Startup("none", 0, <<>>)]

\* no registry is under construction
NoRegistry ==
    Registry(ServerConfig(FALSE, <<>>), "none", <<>>, 0, NoJsError, NoAnswer)

\* new CryptoDaemonMCP(config): config.daemons.length is read for the log
\* line, then validateConfig, then initializeClients
constructor(config) ==
    IF ~config.hasDaemons
    THEN Registry(config, "failed", <<>>, 0,
                  JsError("Cannot read properties of undefined", "length"), NoAnswer)
    ELSE LET e == validateConfig(config) IN
         IF e # NoJsError
         THEN Registry(config, "failed", <<>>, 0, e, NoAnswer)
         ELSE Registry(config, "ready", initializeClients(config),
                       Len(config.daemons), NoJsError, NoAnswer)

\* variant: the keys are listed last to first
getDaemonsReversed(r) ==
    [r EXCEPT !.answer =
                  Answer("getDaemons", "",
                         [i \in 1..Len(r.clients) |->
                             r.clients[Len(r.clients) + 1 - i].key],
                         FALSE, NoJsError)]

\* getDaemons()
getDaemons(r) ==
    [r EXCEPT !.answer = Answer("getDaemons", "", MapKeys(r.clients), FALSE, NoJsError)]

\* variant: a client is built for a nickname that has none
getClientLazy(r, daemon) ==
    IF MapHas(r.clients, daemon)
    THEN [r EXCEPT !.answer = Answer("getClient", daemon, <<>>, TRUE, NoJsError)]
    ELSE [r EXCEPT !.clients = Append(@, Entry(daemon, Daemon("bitcoin", daemon, <<>>))),
                   !.built = @ + 1,
                   !.answer = Answer("getClient", daemon, <<>>, TRUE, NoJsError)]

\* getClient(daemon)
getClient(r, daemon) ==
    IF MapHas(r.clients, daemon)
    THEN [r EXCEPT !.answer = Answer("getClient", daemon, <<>>, TRUE, NoJsError)]
    ELSE [r EXCEPT !.answer =
                       Answer("getClient", daemon, <<>>, FALSE,
                              JsError("Daemon not found", daemon))]

-----------------------------------------------------------------------------
(* The Logger of src/unnamed/part_000.  A string parameter is a sequence of *)
(* characters, so that the patterns are searched for in it.                 *)

\* a positional parameter of a call: a string or a number
StringParam(chars) == [type |-> "string", chars |-> chars, number |-> 0]
NumberParam(n) == [type |-> "number", chars |-> <<>>, number |-> n]

\* String.prototype.toLowerCase, one character
LowerCase(ch) ==
    CASE ch = "A" -> "a" [] ch = "B" -> "b" [] ch = "C" -> "c" [] ch = "D" -> "d"
      [] ch = "E" -> "e" [] ch = "F" -> "f" [] ch = "G" -> "g" [] ch = "H" -> "h"
      [] ch = "I" -> "i" [] ch = "J" -> "j" [] ch = "K" -> "k" [] ch = "L" -> "l"
      [] ch = "M" -> "m" [] ch = "N" -> "n" [] ch = "O" -> "o" [] ch = "P" -> "p"
      [] ch = "Q" -> "q" [] ch = "R" -> "r" [] ch = "S" -> "s" [] ch = "T" -> "t"
      [] ch = "U" -> "u" [] ch = "V" -> "v" [] ch = "W" -> "w" [] ch = "X" -> "x"
      [] ch = "Y" -> "y" [] ch = "Z" -> "z" [] OTHER -> ch

\* pattern.test(chars) for a pattern /word/i: the word occurs somewhere in
\* chars, whatever the case of the letters
PatternTest(word, chars) ==
    \E i \in 1..(Len(chars) - Len(word) + 1) :
        \A j \in 1..Len(word) : LowerCase(chars[i + j - 1]) = word[j]

\* /password/i, /auth/i, /secret/i, /private/i, /key/i, /token/i
sensitivePatterns ==
    {<<"p", "a", "s", "s", "w", "o", "r", "d">>, <<"a", "u", "t", "h">>,
     <<"s", "e", "c", "r", "e", "t">>, <<"p", "r", "i", "v", "a", "t", "e">>,
     <<"k", "e", "y">>, <<"t", "o", "k", "e", "n">>}

containsSensitiveData(chars) ==
    \E pattern \in sensitivePatterns : PatternTest(pattern, chars)

\* '***REDACTED***'
Redacted ==
    StringParam(<<"*", "*", "*", "R", "E", "D", "A", "C", "T", "E", "D", "*", "*", "*">>)

\* sanitizeParams: params.map(...)
sanitizeParams(params) ==
    [i \in 1..Len(params) |->
        IF params[i].type = "string" /\ containsSensitiveData(params[i].chars)
        THEN Redacted ELSE params[i]]

\* one message written by Logger.write whose metadata has a `params` member
Line(context, message, params) ==
    [context |-> context, message |-> message, params |-> params]

\* logRpcCall: the line it writes for a call with `params`
logRpcCall(success, params) ==
    Line("RPC", IF success THEN "Successful call" ELSE "Failed call",
         sanitizeParams(params))

-----------------------------------------------------------------------------
(* Frames: one caller's operation in progress *)

\* responseData as far as makeRequest looks at it: kind is none (not read),
\* malformed, error (the error member is truthy) or result; hasResult tells
\* whether the body has a result member
Body(kind, code, message, hasResult) ==
    [kind |-> kind, code |-> code, message |-> message, hasResult |-> hasResult]

NoBody == Body("none", 0, "", FALSE)

\* the record logger.logRpcCall receives
LogRecord(m, success, error) == [method |-> m, success |-> success, error |-> error]

\* Fields of a frame:
\*   op, arg, amount  the operation invoked and its argument
\*   method           the method of the makeRequest in progress
\*   pc               idle | fetch (awaiting fetch) | json (awaiting
\*                    response.json()) | backoff (awaiting the delay) | done
\*   attempt          retryableRequest's loop variable
\*   timer            the attempt's setTimeout is pending
\*   status           the status of the response to the attempt, 0 before it
\*   body             what response.json() gave for the attempt
\*   held             checkStatus's `blockchain`
\*   params           the positional parameters of the makeRequest in progress
\*   tool             the tool whose handler called the operation, "" when the
\*                    client was called directly
\*   daemon           the nickname the tool was called with
\*   isError          the tool handler returned a result with isError: true
\*   errorText        the text of that result: its prefix and the error's message
\*   ok, value, error the outcome of the operation, once done
\* and, as history of the operation:
\*   lastErr          what the latest attempt threw (NoError once one succeeds)
\*   allRetryable     every attempt of the current makeRequest that failed
\*                    threw an RpcConnectionError or a DaemonSyncError
\*   trace            events in order: <<"call", 0>> makeRequest entered,
\*                    <<"attempt", k>> fetch of attempt k issued, <<"warn", k>>
\*                    logger.warn of attempt k, <<"delay", ms>> backoff slept,
\*                    <<"log", 1 or 0>> logRpcCall with success or failure
\*   rpcLog           the records given to logRpcCall
\*   written          the lines with a `params` member that the Logger wrote
\*   sent             the methods of the HTTP requests issued
\*   response         the result of the latest makeRequest that returned
\*   startState       the connection state when the operation was invoked
\*   cancelled        the caller has cancelled its request

IdleFrame ==
    [op |-> "none", arg |-> "", amount |-> 0,
     method |-> "", pc |-> "idle", attempt |-> 0, timer |-> FALSE, status |-> 0,
     body |-> NoBody, params |-> <<>>, isError |-> FALSE, written |-> <<>>,
     tool |-> "", daemon |-> "", errorText |-> <<>>,
     lastErr |-> NoError, allRetryable |-> TRUE,
     trace |-> <<>>, rpcLog |-> <<>>, sent |-> <<>>,
     held |-> NoValue, response |-> NoValue,
     ok |-> FALSE, value |-> NoValue, error |-> NoError,
     startState |-> "disconnected", cancelled |-> FALSE]

\* one attempt starts: the timer is armed and fetch is called
StartAttempt(f, n) ==
    [f EXCEPT !.pc = "fetch", !.attempt = n, !.timer = TRUE, !.status = 0, !.body = NoBody,
              !.trace = Append(@, <<"attempt", n>>),
              !.sent = Append(@, f.method)]

\* makeRequest(m) is entered: retryableRequest starts its loop at attempt 1
StartRequest(f, m) ==
    StartAttempt([f EXCEPT !.method = m, !.lastErr = NoError,
                           !.allRetryable = TRUE,
                           !.trace = Append(@, <<"call", 0>>)], 1)

\* the operation of frame f completes with a value
Resolve(f, v) == [f EXCEPT !.pc = "done", !.ok = TRUE, !.value = v]

\* `error instanceof Error`: every error of the taxonomy and every error the
\* runtime throws is one
InstanceOfError(error) == error.cls # "none"

\* the text a tool's handler puts before the message of the error it caught
ErrorPrefix(tool) ==
    CASE tool = "execute-command" -> "Error: "
      [] tool = "send-coins" -> "Error sending coins: "
      [] tool = "zsend-coins" -> "Error sending shielded transaction: "
      [] tool = "get-balance" -> "Error getting balance: "
      [] tool = "check-status" -> "Error checking status: "

\* variant: the catch of a handler lets the errors of the taxonomy through
toolCatchRethrowsTaxonomy(f, error) ==
    IF InstanceOfCryptoDaemonError(error)
    THEN [f EXCEPT !.pc = "done", !.ok = FALSE, !.error = error]
    ELSE [Resolve(f, NoValue) EXCEPT
              !.isError = TRUE, !.error = error,
              !.errorText = <<ErrorPrefix(f.tool), error.msg>>]

\* the catch of a tool's handler: logger.error and a result with isError:
\* true for an Error, `throw error` for anything else; of the objects the
\* handlers log only that of execute-command has a `params` member
toolCatch(f, error) ==
    IF InstanceOfError(error)
    THEN [Resolve(f, NoValue) EXCEPT
              !.isError = TRUE, !.error = error,
              !.errorText = <<ErrorPrefix(f.tool), error.msg>>,
              !.written = IF f.tool = "execute-command"
                          THEN Append(@, Line("MCP", "Command execution failed", f.params))
                          ELSE @]
    ELSE [f EXCEPT !.pc = "done", !.ok = FALSE, !.error = error]

\* the operation of frame f completes with an error: it is thrown to the
\* caller, which is the handler of a tool when a tool called the client
Reject(f, e) ==
    IF f.tool = "" THEN [f EXCEPT !.pc = "done", !.ok = FALSE, !.error = e]
    ELSE toolCatch(f, e)

-----------------------------------------------------------------------------
(* The operations of RpcClient.  A context is the caller's frame together   *)
(* with the client's connection state, cs; each operator below is one run   *)
(* of the code between two awaits and gives the context it leaves.          *)

Ctx(f, cs) == [f |-> f, cs |-> cs]

CoinNames == {"bitcoin", "zcash"}

\* coinName.toLowerCase() === 'zcash' || coinName.toLowerCase().includes('zec')
IsZcash(coin) == coin \in {"zcash"}

\* the method getBalance asks the daemon with
BalanceMethod(coin) == IF IsZcash(coin) THEN "z_gettotalbalance" ELSE "getbalance"

\* the WalletBalance getBalance returns: a = transparent, b = shielded
WalletBalance(coin, result) ==
    IF IsZcash(coin) THEN Value(result.a, result.b, Undefined)
    ELSE Value(result.a, 0, Undefined)

\* JavaScript's x >= y on numbers that may be undefined: undefined converts
\* to NaN, and every comparison with NaN is false
GreaterOrEqual(x, y) == x # Undefined /\ y # Undefined /\ x >= y

\* variant: synced only when the daemon is ahead of the headers
DaemonStatusAhead(blockchain, network) ==
    Value(blockchain.a, IF blockchain.a > blockchain.b THEN 1 ELSE 0, network.b)

\* the DaemonStatus checkStatus returns: a = blocks, b = synced (1 or 0),
\* c = connections
DaemonStatus(blockchain, network) ==
    Value(blockchain.a, IF GreaterOrEqual(blockchain.a, blockchain.b) THEN 1 ELSE 0,
          network.b)

\* variant: the catch rethrows without resetting the state
validateConnectionCatchKeepsState(c, error) ==
    Ctx(Reject(c.f, IF InstanceOfCryptoDaemonError(error) THEN error
                    ELSE RpcConnectionError(error.msg)),
        c.cs)

\* validateConnection's catch: the state is reset and the error rethrown
validateConnectionCatch(c, error) ==
    Ctx(Reject(c.f, IF InstanceOfCryptoDaemonError(error) THEN error
                    ELSE RpcConnectionError(error.msg)),
        "disconnected")

\* variant: a probe that succeeds after another caller's operation has
\* ended leaves the state as that one left it
validateConnectionTryFirstWins(c, info) ==
    LET c1 == Ctx(c.f, IF \E q \in Callers : frame[q].pc = "done"
                       THEN c.cs ELSE "connected")
    IN IF ~Truthy(info.a) \/ ~Truthy(info.b)
       THEN validateConnectionCatch(c1, DaemonSyncError(OrZero(info.a), OrZero(info.c)))
       ELSE Ctx(Resolve(c1.f, NoValue), c1.cs)

\* variant: the sync error reports the peer count as the network height
validateConnectionTryPeers(c, info) ==
    LET c1 == Ctx(c.f, "connected")
    IN IF ~Truthy(info.a) \/ ~Truthy(info.b)
       THEN validateConnectionCatch(c1, DaemonSyncError(OrZero(info.a), OrZero(info.b)))
       ELSE Ctx(Resolve(c1.f, NoValue), c1.cs)

\* validateConnection after makeRequest('getinfo') returned `info`
validateConnectionTry(c, info) ==
    LET c1 == Ctx(c.f, "connected")
    IN IF ~Truthy(info.a) \/ ~Truthy(info.b)
       THEN validateConnectionCatch(c1, DaemonSyncError(OrZero(info.a), OrZero(info.c)))
       ELSE Ctx(Resolve(c1.f, NoValue), c1.cs)

\* variant: sendCoins sends unless the balance is negative
sendCoinsAfterBalanceNonNegative(c, balance) ==
    IF balance.a < 0
    THEN Ctx(Reject(c.f, InsufficientFundsError(c.f.amount, balance.a)), c.cs)
    ELSE Ctx(StartRequest(c.f, "sendtoaddress"), c.cs)

\* variant: sendtoaddress is sent without a look at the balance
sendCoinsAfterBalanceUnchecked(c, balance) ==
    Ctx(StartRequest(c.f, "sendtoaddress"), c.cs)

\* variant: sendCoins reports a shortage as a plain CryptoDaemonError
sendCoinsAfterBalancePlain(c, balance) ==
    IF balance.a < c.f.amount
    THEN Ctx(Reject(c.f, CryptoDaemonError("Insufficient funds")), c.cs)
    ELSE Ctx(StartRequest(c.f, "sendtoaddress"), c.cs)

\* sendCoins after getBalance returned `balance`
sendCoinsAfterBalance(c, balance) ==
    IF balance.a < c.f.amount
    THEN Ctx(Reject(c.f, InsufficientFundsError(c.f.amount, balance.a)), c.cs)
    ELSE Ctx(StartRequest(c.f, "sendtoaddress"), c.cs)

\* the caller's operation resumes after its makeRequest returned a body
\* with `result`, or with no result member (c.f.body.hasResult is false):
\* response.result.transparent and network.result.subversion then throw a
\* TypeError inside the operation's try, whose catch logs and rethrows it
OpContinue(c, result) ==
    CASE c.f.op = "validateConnection" -> validateConnectionTry(c, result)
      [] c.f.op \in {"makeRequest", "executeCommand", "zSendCoins"} ->
            Ctx(Resolve(c.f, result), c.cs)
      [] c.f.op = "getBalance" ->
            IF IsZcash(coinName) /\ ~c.f.body.hasResult
            THEN Ctx(Reject(c.f, TypeError), c.cs)
            ELSE Ctx(Resolve(c.f, WalletBalance(coinName, result)), c.cs)
      [] c.f.op = "sendCoins" ->
            IF c.f.method = "sendtoaddress"
            THEN Ctx(Resolve(c.f, result), c.cs)
            ELSE IF IsZcash(coinName) /\ ~c.f.body.hasResult
            THEN Ctx(Reject(c.f, TypeError), c.cs)
            ELSE sendCoinsAfterBalance(c, WalletBalance(coinName, result))
      [] c.f.op = "checkStatus" ->
            IF c.f.method = "getblockchaininfo"
            THEN Ctx(StartRequest([c.f EXCEPT !.held = result], "getnetworkinfo"), c.cs)
            ELSE IF ~c.f.body.hasResult
            THEN Ctx(Reject(c.f, TypeError), c.cs)
            ELSE Ctx(Resolve(c.f, DaemonStatus(c.f.held, result)), c.cs)

\* variant: a request that ends unreachable or unsynced marks the client
\* disconnected
OpCatchDisconnects(c, error) ==
    IF c.f.op = "validateConnection" THEN validateConnectionCatch(c, error)
    ELSE Ctx(Reject(c.f, error),
             IF error.cls \in {"RpcConnectionError", "DaemonSyncError"}
             THEN "disconnected" ELSE c.cs)

\* the caller's operation resumes after its makeRequest threw `error`: every
\* operation but validateConnection logs and rethrows
OpCatch(c, error) ==
    IF c.f.op = "validateConnection" THEN validateConnectionCatch(c, error)
    ELSE Ctx(Reject(c.f, error), c.cs)

\* variant: any request that succeeds marks the client connected
makeRequestReturnsConnects(c, result) ==
    OpContinue(Ctx([c.f EXCEPT !.lastErr = NoError, !.response = result,
                               !.trace = Append(@, <<"log", 1>>),
                               !.rpcLog = Append(@, LogRecord(c.f.method, TRUE, NoError)),
                               !.written = Append(@, logRpcCall(TRUE, c.f.params))],
                   "connected"),
               result)

\* makeRequest after retryableRequest returned: success = true, logRpcCall
makeRequestReturns(c, result) ==
    OpContinue(Ctx([c.f EXCEPT !.lastErr = NoError, !.response = result,
                               !.trace = Append(@, <<"log", 1>>),
                               !.rpcLog = Append(@, LogRecord(c.f.method, TRUE, NoError)),
                               !.written = Append(@, logRpcCall(TRUE, c.f.params))],
                   c.cs),
               result)

\* variant: the finally block reports successful calls only
makeRequestThrowsUnlogged(c, processError) == OpCatch(c, processError)

\* makeRequest after retryableRequest threw: error = processError, logRpcCall
makeRequestThrows(c, processError) ==
    OpCatch(Ctx([c.f EXCEPT !.trace = Append(@, <<"log", 0>>),
                            !.rpcLog =
                                Append(@, LogRecord(c.f.method, FALSE, processError)),
                            !.written = Append(@, logRpcCall(FALSE, c.f.params))],
                c.cs),
            processError)

\* variant: logRpcCall is also given every failed attempt
retryableRequestCatchLogs(c, error) ==
    LET f1 == [c.f EXCEPT !.lastErr = error,
                          !.allRetryable =
                              @ /\ error.cls \in {"RpcConnectionError", "DaemonSyncError"},
                          !.trace = Append(@, <<"warn", c.f.attempt>>),
                          !.rpcLog = Append(@, LogRecord(c.f.method, FALSE, error))]
    IN IF ~isRetryable(error) \/ isLastAttempt(c.f.attempt)
       THEN makeRequestThrows(Ctx(f1, c.cs), Thrown(error))
       ELSE Ctx([f1 EXCEPT !.pc = "backoff",
                           !.trace = Append(@, <<"delay", BackoffDelay(c.f.attempt)>>)],
                c.cs)

\* retryableRequest's catch of the error of attempt c.f.attempt
retryableRequestCatch(c, error) ==
    LET f1 == [c.f EXCEPT !.lastErr = error,
                          !.allRetryable =
                              @ /\ error.cls \in {"RpcConnectionError", "DaemonSyncError"},
                          !.trace = Append(@, <<"warn", c.f.attempt>>)]
    IN IF ~isRetryable(error) \/ isLastAttempt(c.f.attempt)
       THEN makeRequestThrows(Ctx(f1, c.cs), Thrown(error))
       ELSE Ctx([f1 EXCEPT !.pc = "backoff",
                           !.trace = Append(@, <<"delay", BackoffDelay(c.f.attempt)>>)],
                c.cs)

\* one attempt rejects with err
AttemptThrows(c, err) == retryableRequestCatch(c, AttemptCatch(err))

-----------------------------------------------------------------------------
(* What a caller may invoke *)

RequestMethods == {"getinfo", "sendtoaddress"}

\* the execute-command tool takes `command` as any string and hands it to
\* executeCommand as `command as RpcMethod`: the names above and one that is
\* not of RpcMethod
Commands == RequestMethods \cup {"dumpprivkey"}
Amounts == {1, 2}

Call(o, m, n) == [op |-> o, arg |-> m, amount |-> n]

Invocations ==
    {Call("validateConnection", "", 0), Call("zSendCoins", "", 0),
     Call("getBalance", "", 0), Call("checkStatus", "", 0)}
    \cup {Call("makeRequest", m, 0) : m \in RequestMethods}
    \cup {Call("executeCommand", m, 0) : m \in Commands}
    \cup {Call("sendCoins", "", n) : n \in Amounts}

\* the method of the first makeRequest of an operation
FirstMethod(call) ==
    CASE call.op = "validateConnection" -> ProbeMethod
      [] call.op \in {"makeRequest", "executeCommand"} -> call.arg
      [] call.op \in {"sendCoins", "getBalance"} -> BalanceMethod(coinName)
      [] call.op = "zSendCoins" -> "z_sendmany"
      [] call.op = "checkStatus" -> "getblockchaininfo"

\* The bodies a 2xx response may carry: malformed JSON, a JSON-RPC error, or
\* a result.

\* the error-free bodies for method m: each result, and where the model's
\* daemon may omit it, the body without one
ResultBodies(m) ==
    {[body |-> Body("result", 0, "", TRUE), result |-> r] : r \in ResultsOf(m)}
    \cup (IF m \in MayOmitResult
          THEN {[body |-> Body("result", 0, "", FALSE), result |-> NoValue]}
          ELSE {})

\* the error bodies of the model's daemon: every code with every message and
\* no result member, and two that carry a result as well
ErrorBodies ==
    {Body("error", k, m, FALSE) : k \in Codes, m \in Messages}
    \cup {Body("error", 0 - 6, "other", TRUE), Body("error", 0 - 1, "undefined", TRUE)}

-----------------------------------------------------------------------------
(* Actions *)

\* caller p's frame becomes c.f and the connection state c.cs
Commit(p, c) ==
    /\ frame' = [frame EXCEPT ![p] = c.f]
    /\ connectionState' = c.cs
    /\ probeCompleted' =
           (probeCompleted \/ (c.f.op = "validateConnection" /\ c.f.pc = "done"))
    /\ connects' = IF connectionState = "disconnected" /\ c.cs = "connected"
                   THEN connects + 1 ELSE connects
    /\ UNCHANGED <<coinName, classified, mcp, validation>>

\* caller p invokes one of `calls`; the operation runs up to its first fetch
InvokeOneOf(p, calls) ==
    /\ frame[p].pc = "idle"
    /\ opsLeft[p] > 0
    /\ \E call \in calls :
          Commit(p, Ctx(StartRequest([IdleFrame EXCEPT !.op = call.op,
                                                      !.arg = call.arg,
                                                      !.amount = call.amount,
                                                      !.startState = connectionState],
                                     FirstMethod(call)),
                        connectionState))
    /\ opsLeft' = [opsLeft EXCEPT ![p] = @ - 1]
    /\ UNCHANGED staleTimers

\* caller p invokes an operation of the client
Invoke(p) == InvokeOneOf(p, Invocations)

\* caller p calls makeRequest
InvokeRequest(p) == InvokeOneOf(p, {call \in Invocations : call.op = "makeRequest"})

\* fetch rejects: the daemon cannot be reached (connection refused, reset).
\* The attempt ends without clearTimeout: its timer stays pending.
FetchRejects(p) ==
    /\ frame[p].pc = "fetch"
    /\ Commit(p, AttemptThrows(Ctx([frame[p] EXCEPT !.timer = FALSE], connectionState),
                               FetchError))
    /\ staleTimers' = staleTimers + (IF frame[p].timer THEN 1 ELSE 0)
    /\ UNCHANGED opsLeft

\* the attempt's timer fires before fetch has settled: controller.abort()
TimeoutFires(p) ==
    /\ frame[p].pc = "fetch"
    /\ frame[p].timer
    /\ Commit(p, AttemptThrows(Ctx([frame[p] EXCEPT !.timer = FALSE], connectionState),
                               AbortError))
    /\ UNCHANGED <<opsLeft, staleTimers>>

\* fetch resolves with the response headers: clearTimeout, response.ok
HeadersArrive(p) ==
    /\ frame[p].pc = "fetch"
    /\ \E status \in Statuses :
          LET c == Ctx([frame[p] EXCEPT !.timer = FALSE, !.status = status],
                       connectionState)
          IN IF responseOk(status)
             THEN Commit(p, Ctx([c.f EXCEPT !.pc = "json"], c.cs))
             ELSE Commit(p, AttemptThrows(c, HttpError(status)))
    /\ UNCHANGED <<opsLeft, staleTimers>>

\* response.json() rejects: the body is not JSON
BodyMalformed(p) ==
    /\ frame[p].pc = "json"
    /\ Commit(p, AttemptThrows(Ctx([frame[p] EXCEPT !.body = Body("malformed", 0, "", FALSE)],
                                   connectionState),
                               SyntaxError))
    /\ UNCHANGED <<opsLeft, staleTimers>>

\* response.json() resolves with a body that carries an error
BodyError(p) ==
    /\ frame[p].pc = "json"
    /\ \E e \in ErrorBodies :
          Commit(p, AttemptThrows(Ctx([frame[p] EXCEPT !.body = e], connectionState),
                                  mapRpcErrorToCustomError(e.code, e.message)))
    /\ UNCHANGED <<opsLeft, staleTimers>>

\* response.json() resolves with a body that carries no error
BodyResult(p) ==
    /\ frame[p].pc = "json"
    /\ \E b \in ResultBodies(frame[p].method) :
          Commit(p, makeRequestReturns(Ctx([frame[p] EXCEPT !.body = b.body],
                                           connectionState),
                                       b.result))
    /\ UNCHANGED <<opsLeft, staleTimers>>

\* the backoff delay has elapsed: the loop goes on to the next attempt
BackoffElapses(p) ==
    /\ frame[p].pc = "backoff"
    /\ Commit(p, Ctx(StartAttempt(frame[p], frame[p].attempt + 1), connectionState))
    /\ UNCHANGED <<opsLeft, staleTimers>>

\* the caller cancels its request while the call sleeps between two
\* attempts.  No operation of the client takes a signal of its caller and the
\* promise of the delay settles by its timer alone: nothing but the
\* caller's own record of the cancellation changes.
CallerCancels(p) ==
    /\ frame[p].pc = "backoff"
    /\ ~frame[p].cancelled
    /\ Commit(p, Ctx([frame[p] EXCEPT !.cancelled = TRUE], connectionState))
    /\ UNCHANGED <<opsLeft, staleTimers>>

\* the caller has its result or error and is free to invoke again
Return(p) ==
    /\ frame[p].pc = "done"
    /\ Commit(p, Ctx(IdleFrame, connectionState))
    /\ UNCHANGED <<opsLeft, staleTimers>>

\* variant: one AbortController for every attempt: the timer left over by an
\* earlier attempt aborts the fetch that is in flight
StaleTimerFiresShared ==
    /\ staleTimers > 0
    /\ staleTimers' = staleTimers - 1
    /\ \E p \in Callers :
          /\ frame[p].pc = "fetch"
          /\ Commit(p, AttemptThrows(Ctx(frame[p], connectionState), AbortError))
    /\ UNCHANGED opsLeft

\* the timer of an attempt that has ended fires: controller.abort() on the
\* controller of that attempt, whose fetch has settled already
StaleTimerFires ==
    /\ staleTimers > 0
    /\ staleTimers' = staleTimers - 1
    /\ UNCHANGED <<connectionState, coinName, frame, opsLeft, probeCompleted,
                   connects, classified, mcp, validation>>

\* variant: a client that starts out connected
InitialStateConnected == "connected"

\* the state after `new RpcClient(config)`
InitialState == "disconnected"

Init ==
    /\ connectionState = InitialState
    /\ coinName \in CoinNames
    /\ frame = [p \in Callers |-> IdleFrame]
    /\ opsLeft = [p \in Callers |-> IF p = "c1" THEN MaxOps ELSE 0]
    /\ probeCompleted = FALSE
    /\ connects = 0
    /\ staleTimers = 0
    /\ classified = NoClassification
    /\ mcp = NoRegistry
    /\ validation = NoValidation

Next ==
    \/ \E p \in Callers :
           \/ Invoke(p)
           \/ FetchRejects(p)
           \/ TimeoutFires(p)
           \/ HeadersArrive(p)
           \/ BodyMalformed(p)
           \/ BodyError(p)
           \/ BodyResult(p)
           \/ BackoffElapses(p)
           \/ CallerCancels(p)
           \/ Return(p)
    \/ StaleTimerFires

Spec == Init /\ [][Next]_vars

-----------------------------------------------------------------------------
(* Concurrent calls: every caller calls makeRequest on the one client, and  *)
(* the runs of their calls between awaits interleave in any order.          *)

\* calls of makeRequest each caller makes
MaxConcOps == 1

InitConc ==
    /\ connectionState = InitialState
    /\ coinName = "bitcoin"
    /\ frame = [p \in Callers |-> IdleFrame]
    /\ opsLeft = [p \in Callers |-> MaxConcOps]
    /\ probeCompleted = FALSE
    /\ connects = 0
    /\ staleTimers = 0
    /\ classified = NoClassification
    /\ mcp = NoRegistry
    /\ validation = NoValidation

NextConc ==
    \/ \E p \in Callers :
           \/ InvokeRequest(p)
           \/ FetchRejects(p)
           \/ TimeoutFires(p)
           \/ HeadersArrive(p)
           \/ BodyMalformed(p)
           \/ BodyError(p)
           \/ BodyResult(p)
           \/ BackoffElapses(p)
           \/ Return(p)
    \/ StaleTimerFires

SpecConc == InitConc /\ [][NextConc]_vars

-----------------------------------------------------------------------------
(* Two callers probe the one client, each once; their probes interleave at  *)
(* every await.                                                             *)

\* caller p calls validateConnection
InvokeProbe(p) == InvokeOneOf(p, {Call("validateConnection", "", 0)})

InitProbes ==
    /\ connectionState = InitialState
    /\ coinName = "bitcoin"
    /\ frame = [p \in Callers |-> IdleFrame]
    /\ opsLeft = [p \in Callers |-> 1]
    /\ probeCompleted = FALSE
    /\ connects = 0
    /\ staleTimers = 0
    /\ classified = NoClassification
    /\ mcp = NoRegistry
    /\ validation = NoValidation

NextProbes ==
    \/ \E p \in Callers :
           \/ InvokeProbe(p)
           \/ FetchRejects(p)
           \/ TimeoutFires(p)
           \/ HeadersArrive(p)
           \/ BodyMalformed(p)
           \/ BodyError(p)
           \/ BodyResult(p)
           \/ BackoffElapses(p)
           \/ Return(p)
    \/ StaleTimerFires

SpecProbes == InitProbes /\ [][NextProbes]_vars

-----------------------------------------------------------------------------
(* Two callers call sendCoins on the one client, each once and each for one *)
(* coin.  The daemon's wallet holds one coin: it answers getbalance with    *)
(* what is left of it and sendtoaddress with a transaction id while the     *)
(* amount is covered, with error -6 otherwise.                              *)

\* the amount caller p's sendCoins has taken from the wallet: the daemon
\* answered its sendtoaddress with a result
Taken(p) ==
    IF /\ frame[p].op = "sendCoins"
       /\ frame[p].method = "sendtoaddress"
       /\ frame[p].pc = "done"
       /\ frame[p].ok
    THEN frame[p].amount ELSE 0

\* what the daemon's wallet holds
DaemonBalance == 1 - Taken("c1") - Taken("c2")

\* caller p calls sendCoins for one coin
InvokeSend(p) == InvokeOneOf(p, {Call("sendCoins", "", 1)})

\* response.json() resolves with the daemon's answer to getbalance or to
\* sendtoaddress
DaemonAnswers(p) ==
    /\ frame[p].pc = "json"
    /\ IF frame[p].method = "sendtoaddress" /\ DaemonBalance < frame[p].amount
       THEN Commit(p, AttemptThrows(
                          Ctx([frame[p] EXCEPT !.body = Body("error", 0 - 6, "other", FALSE)],
                              connectionState),
                          mapRpcErrorToCustomError(0 - 6, "other")))
       ELSE Commit(p, makeRequestReturns(
                          Ctx([frame[p] EXCEPT !.body = Body("result", 0, "", TRUE)],
                              connectionState),
                          Value(IF frame[p].method = "sendtoaddress" THEN 1 ELSE DaemonBalance,
                                Undefined, Undefined)))
    /\ UNCHANGED <<opsLeft, staleTimers>>

InitSend ==
    /\ connectionState = InitialState
    /\ coinName = "bitcoin"
    /\ frame = [p \in Callers |-> IdleFrame]
    /\ opsLeft = [p \in Callers |-> 1]
    /\ probeCompleted = FALSE
    /\ connects = 0
    /\ staleTimers = 0
    /\ classified = NoClassification
    /\ mcp = NoRegistry
    /\ validation = NoValidation

NextSend ==
    \/ \E p \in Callers :
           \/ InvokeSend(p)
           \/ FetchRejects(p)
           \/ TimeoutFires(p)
           \/ HeadersArrive(p)
           \/ BodyMalformed(p)
           \/ DaemonAnswers(p)
           \/ BackoffElapses(p)
    \/ StaleTimerFires

SpecSend == InitSend /\ [][NextSend]_vars

-----------------------------------------------------------------------------
(* mapRpcErrorToCustomError on its own: the arguments are drawn by the      *)
(* initial state and one action applies the function to them.               *)

\* the function runs: it returns an error of the taxonomy, or it throws
Classify ==
    /\ classified.pc = "ready"
    /\ LET out == mapRpcErrorToCustomError(classified.code, classified.message)
       IN classified' =
              [classified EXCEPT !.out = out,
                                 !.pc = IF InstanceOfCryptoDaemonError(out)
                                        THEN "returned" ELSE "threw"]
    /\ UNCHANGED <<clientVars, mcp, validation>>

InitClassify ==
    /\ connectionState = InitialState
    /\ coinName = "bitcoin"
    /\ frame = [p \in Callers |-> IdleFrame]
    /\ opsLeft = [p \in Callers |-> 0]
    /\ probeCompleted = FALSE
    /\ connects = 0
    /\ staleTimers = 0
    /\ classified \in {Classification(code, message, "ready", NoError) :
                          code \in ClassifyCodes, message \in Messages}
    /\ mcp = NoRegistry
    /\ validation = NoValidation

NextClassify == Classify

SpecClassify == InitClassify /\ [][NextClassify]_vars

-----------------------------------------------------------------------------
(* The validation of config.ts on its own: the initial state draws a        *)
(* descriptor or a configuration, and one action applies the function to it. *)

\* the endpoints descriptors are drawn with: absent, "host:8332", "host",
\* ":8232", "host:", "host:abc", "host:0", "host:1", "host:65535",
\* "host:65536", "host:80ab", "host:1.5" and "a:1:2"
Endpoints ==
    {<<>>,
     <<"h", "o", "s", "t", ":", "8", "3", "3", "2">>,
     <<"h", "o", "s", "t">>,
     <<":", "8", "2", "3", "2">>,
     <<"h", "o", "s", "t", ":">>,
     <<"h", "o", "s", "t", ":", "a", "b", "c">>,
     <<"h", "o", "s", "t", ":", "0">>,
     <<"h", "o", "s", "t", ":", "1">>,
     <<"h", "o", "s", "t", ":", "6", "5", "5", "3", "5">>,
     <<"h", "o", "s", "t", ":", "6", "5", "5", "3", "6">>,
     <<"h", "o", "s", "t", ":", "8", "0", "a", "b">>,
     <<"h", "o", "s", "t", ":", "1", ".", "5">>,
     <<"a", ":", "1", ":", "2">>}

\* the descriptors validateDaemonConfig is applied to: every field present
\* or empty, with every endpoint
ValidatedDescriptors ==
    {DaemonWith(coin, nickname, endpoint, user, password) :
         coin \in {"", "bitcoin"}, nickname \in {"", "btc"}, endpoint \in Endpoints,
         user \in {"", "user"}, password \in {"", "secret"}}

\* the configurations validateConfig is applied to: no daemons array, and
\* every array of at most MaxValidated of the descriptors below, two valid
\* ones of different nicknames, a second of the first nickname and an
\* invalid one
MaxValidated == 3

ValidatedConfigs ==
    {ServerConfig(TRUE, daemons) :
         daemons \in UNION {[1..k -> {Daemon("bitcoin", "btc", <<"h", ":", "1">>),
                                     Daemon("bitcoin", "ltc", <<"h", ":", "1">>),
                                     Daemon("zcash", "btc", <<"h", ":", "2">>),
                                     Daemon("bitcoin", "zec", <<"h">>)}] :
                            k \in 0..MaxValidated}}
    \cup {ServerConfig(FALSE, <<>>)}

\* validateDaemonConfig(daemon) runs
ValidateDaemonConfig ==
    /\ validation.pc = "ready"
    /\ validation.fn = "validateDaemonConfig"
    /\ LET error == validateDaemonConfig(validation.daemon)
       IN validation' = [validation EXCEPT !.error = error,
                                           !.pc = IF error = NoJsError
                                                  THEN "returned" ELSE "threw"]
    /\ UNCHANGED <<clientVars, classified, mcp>>

\* validateConfig(config) runs
ValidateConfig ==
    /\ validation.pc = "ready"
    /\ validation.fn = "validateConfig"
    /\ LET error == validateConfig(validation.config)
       IN validation' = [validation EXCEPT !.error = error,
                                           !.pc = IF error = NoJsError
                                                  THEN "returned" ELSE "threw"]
    /\ UNCHANGED <<clientVars, classified, mcp>>

InitValidate ==
    /\ connectionState = InitialState
    /\ coinName = "bitcoin"
    /\ frame = [p \in Callers |-> IdleFrame]
    /\ opsLeft = [p \in Callers |-> 0]
    /\ probeCompleted = FALSE
    /\ connects = 0
    /\ staleTimers = 0
    /\ classified = NoClassification
    /\ mcp = NoRegistry
    /\ validation \in
           {Validation("validateDaemonConfig", daemon, ServerConfig(FALSE, <<>>),
                       "ready", NoJsError) : daemon \in ValidatedDescriptors}
           \cup {Validation("validateConfig", Daemon("", "", <<>>), config,
                            "ready", NoJsError) : config \in ValidatedConfigs}

NextValidate ==
    \/ ValidateDaemonConfig
    \/ ValidateConfig

SpecValidate == InitValidate /\ [][NextValidate]_vars

-----------------------------------------------------------------------------
(* The registry on its own: the initial state draws the configuration, one  *)
(* action runs the constructor, the others are the calls of its methods.    *)

\* daemons listed in one configuration, at most
MaxDaemons == 3

\* "host:8332", and an endpoint without a port
GoodEndpoint == <<"h", "o", "s", "t", ":", "8", "3", "3", "2">>
BadEndpoint == <<"h", "o", "s", "t">>

\* the descriptors a configuration is made of: three nicknames, a second
\* descriptor for the first of them, and three descriptors that are invalid
Descriptors ==
    {Daemon("bitcoin", n, GoodEndpoint) : n \in {"btc", "ltc", "zec"}}
    \cup {Daemon("zcash", "btc", GoodEndpoint),
          Daemon("", "ltc", GoodEndpoint),
          Daemon("bitcoin", "", GoodEndpoint),
          Daemon("bitcoin", "zec", BadEndpoint)}

Configs ==
    {ServerConfig(TRUE, daemons) :
         daemons \in UNION {[1..k -> Descriptors] : k \in 0..MaxDaemons}}
    \cup {ServerConfig(FALSE, <<>>)}

\* the nicknames asked for: those of the descriptors and one of none
QueryNames == {"btc", "ltc", "zec", "doge"}

\* new CryptoDaemonMCP(config)
Construct ==
    /\ mcp.phase = "new"
    /\ mcp' = constructor(mcp.config)
    /\ UNCHANGED <<clientVars, classified, validation>>

\* cryptoMcp.getDaemons()
GetDaemons ==
    /\ mcp.phase = "ready"
    /\ mcp' = getDaemons(mcp)
    /\ UNCHANGED <<clientVars, classified, validation>>

\* cryptoMcp.getClient(daemon)
GetClient ==
    /\ mcp.phase = "ready"
    /\ \E daemon \in QueryNames : mcp' = getClient(mcp, daemon)
    /\ UNCHANGED <<clientVars, classified, validation>>

InitRegistry ==
    /\ connectionState = InitialState
    /\ coinName = "bitcoin"
    /\ frame = [p \in Callers |-> IdleFrame]
    /\ opsLeft = [p \in Callers |-> 0]
    /\ probeCompleted = FALSE
    /\ connects = 0
    /\ staleTimers = 0
    /\ classified = NoClassification
    /\ mcp \in {Registry(config, "new", <<>>, 0, NoJsError, NoAnswer) : config \in Configs}
    /\ validation = NoValidation

NextRegistry ==
    \/ Construct
    \/ GetDaemons
    \/ GetClient

SpecRegistry == InitRegistry /\ [][NextRegistry]_vars

-----------------------------------------------------------------------------
(* The tools of mcpServer.ts: one caller, the controller, calls a tool; the *)
(* handler looks the daemon up in the registry and runs the operation on    *)
(* the client, which is the client of daemon "btc".                         *)

\* parameters in one call of the tool, at most
MaxParams == 2

\* the parameters the controller passes: "abc", "myKey", "secret" and 5
ParamValues ==
    {StringParam(<<"a", "b", "c">>), StringParam(<<"m", "y", "K", "e", "y">>),
     StringParam(<<"s", "e", "c", "r", "e", "t">>), NumberParam(5)}

ParamLists == UNION {[1..k -> ParamValues] : k \in 0..MaxParams}

\* the commands and the daemons the controller names
ToolCommands == {"sendtoaddress", "walletpassphrase"}
ToolDaemons == {"btc", "doge"}

\* the configuration the server was started with
ToolConfig == ServerConfig(TRUE, <<Daemon("bitcoin", "btc", GoodEndpoint)>>)

\* the handler of execute-command runs up to its first await: logger.info
\* with the params as given, getClient, and executeCommand up to its fetch;
\* when getClient throws, the catch ends the call
ExecuteCommandTool(p) ==
    /\ frame[p].pc = "idle"
    /\ opsLeft[p] > 0
    /\ \E daemon \in ToolDaemons, command \in ToolCommands, params \in ParamLists :
          LET f == [IdleFrame EXCEPT
                       !.tool = "execute-command", !.daemon = daemon,
                       !.op = "executeCommand", !.arg = command,
                       !.params = params, !.startState = connectionState,
                       !.written = <<Line("MCP", "Executing command", params)>>]
              client == getClient(mcp, daemon).answer
          IN IF client.found
             THEN Commit(p, Ctx(StartRequest(f, command), connectionState))
             ELSE Commit(p, Ctx(Reject(f, Err("Error", client.error.message, 0, 0)),
                                connectionState))
    /\ opsLeft' = [opsLeft EXCEPT ![p] = @ - 1]
    /\ UNCHANGED staleTimers

\* the handler of one of the other tools runs up to its first await:
\* logger.info, getClient, and the client's operation up to its fetch; when
\* getClient throws, the catch ends the call
ToolHandler(p, tool, calls) ==
    /\ frame[p].pc = "idle"
    /\ opsLeft[p] > 0
    /\ \E daemon \in ToolDaemons, call \in calls :
          LET f == [IdleFrame EXCEPT
                       !.tool = tool, !.daemon = daemon,
                       !.op = call.op, !.arg = call.arg,
                       !.amount = call.amount, !.startState = connectionState]
              client == getClient(mcp, daemon).answer
          IN IF client.found
             THEN Commit(p, Ctx(StartRequest(f, FirstMethod(call)), connectionState))
             ELSE Commit(p, Ctx(Reject(f, Err("Error", client.error.message, 0, 0)),
                                connectionState))
    /\ opsLeft' = [opsLeft EXCEPT ![p] = @ - 1]
    /\ UNCHANGED staleTimers

SendCoinsTool(p) == ToolHandler(p, "send-coins", {Call("sendCoins", "", n) : n \in Amounts})

ZSendCoinsTool(p) == ToolHandler(p, "zsend-coins", {Call("zSendCoins", "", 0)})

GetBalanceTool(p) == ToolHandler(p, "get-balance", {Call("getBalance", "", 0)})

CheckStatusTool(p) == ToolHandler(p, "check-status", {Call("checkStatus", "", 0)})

InitTool ==
    /\ connectionState = InitialState
    /\ coinName = "bitcoin"
    /\ frame = [p \in Callers |-> IdleFrame]
    /\ opsLeft = [p \in Callers |-> IF p = "c1" THEN 1 ELSE 0]
    /\ probeCompleted = FALSE
    /\ connects = 0
    /\ staleTimers = 0
    /\ classified = NoClassification
    /\ mcp = constructor(ToolConfig)
    /\ validation = NoValidation

NextTool ==
    \/ \E p \in Callers :
           \/ ExecuteCommandTool(p)
           \/ SendCoinsTool(p)
           \/ ZSendCoinsTool(p)
           \/ GetBalanceTool(p)
           \/ CheckStatusTool(p)
           \/ FetchRejects(p)
           \/ TimeoutFires(p)
           \/ HeadersArrive(p)
           \/ BodyMalformed(p)
           \/ BodyError(p)
           \/ BodyResult(p)
           \/ BackoffElapses(p)
           \/ Return(p)
    \/ StaleTimerFires

SpecTool == InitTool /\ [][NextTool]_vars

-----------------------------------------------------------------------------
(* startMcpServer of mcpServer.ts: the registry is built, the tools, the    *)
(* resources and the prompts are registered, the transport is connected and *)
(* the daemons are probed one after another.  Every daemon has its own      *)
(* RpcClient; connectionState, coinName and the frame of caller "c1" are    *)
(* those of the client being probed.                                        *)

Event(kind, daemon) == <<kind, daemon>>

\* startMcpServer up to `await server.connect(transport)`: a constructor that
\* throws ends it
startMcpServerBegins(r) ==
    LET built == constructor(r.config) IN
    IF built.phase = "failed"
    THEN [built EXCEPT !.startup = Startup("failed", 0, <<Event("starting", "")>>)]
    ELSE [built EXCEPT !.startup =
                           Startup("connecting", 0,
                                   <<Event("starting", ""), Event("tools", ""),
                                     Event("connect", "")>>)]

\* variant: a probe that failed ends startMcpServer
startupAfterProbeRethrows(s, daemon, f) ==
    IF f.ok
    THEN [s EXCEPT !.events = Append(@, Event("info", daemon))]
    ELSE [s EXCEPT !.stage = "failed"]

\* the loop's body after `await client.validateConnection()` settled:
\* logger.info after a probe that succeeded, logger.error in the catch
startupAfterProbe(s, daemon, f) ==
    [s EXCEPT !.events = Append(@, Event(IF f.ok THEN "info" ELSE "error", daemon))]

\* the loop `for (const daemon of cryptoMcp.getDaemons())` reaches its i-th
\* daemon, or its end: the final logger.info and `return server`
startupLoop(r, s, i) ==
    LET daemons == getDaemons(r).answer.names IN
    IF i > Len(daemons)
    THEN [s EXCEPT !.stage = "started", !.next = 0,
                   !.events = Append(@, Event("started", ""))]
    ELSE [s EXCEPT !.stage = "probing", !.next = i,
                   !.events = Append(@, Event("probe", daemons[i]))]

\* the configuration of the client that getClient(daemon) returns
clientOf(r, daemon) ==
    r.clients[CHOOSE k \in 1..Len(r.clients) : r.clients[k].key = daemon].value

\* the loop goes on from startup record s at index i: when a daemon is left
\* its client, new and never used, is probed up to the first fetch
ProbeFrom(s, i) ==
    LET s1 == startupLoop(mcp, s, i) IN
    /\ mcp' = [mcp EXCEPT !.startup = s1]
    /\ IF s1.stage = "probing"
       THEN /\ connectionState' = InitialState
            /\ coinName' = clientOf(mcp, getDaemons(mcp).answer.names[i]).coinName
            /\ frame' = [frame EXCEPT !["c1"] =
                             StartRequest([IdleFrame EXCEPT
                                               !.op = "validateConnection",
                                               !.startState = InitialState],
                                          ProbeMethod)]
       ELSE /\ frame' = [frame EXCEPT !["c1"] = IdleFrame]
            /\ UNCHANGED <<connectionState, coinName>>
    /\ UNCHANGED <<opsLeft, probeCompleted, connects, staleTimers, classified, validation>>

\* startMcpServer(config) runs up to its first await
StartMcpServer ==
    /\ mcp.startup.stage = "new"
    /\ mcp' = startMcpServerBegins(mcp)
    /\ UNCHANGED <<clientVars, classified, validation>>

\* server.connect(transport) has resolved: the loop over the daemons begins
ConnectReturns ==
    /\ mcp.startup.stage = "connecting"
    /\ ProbeFrom(mcp.startup, 1)

\* the probe of the daemon at hand has settled: it is logged and the loop
\* goes on with the next daemon
ProbeSettles ==
    /\ mcp.startup.stage = "probing"
    /\ frame["c1"].pc = "done"
    /\ LET s1 == startupAfterProbe(mcp.startup,
                                   getDaemons(mcp).answer.names[mcp.startup.next],
                                   frame["c1"])
       IN IF s1.stage = "failed"
          THEN /\ mcp' = [mcp EXCEPT !.startup = s1]
               /\ UNCHANGED <<clientVars, classified, validation>>
          ELSE ProbeFrom(s1, mcp.startup.next + 1)

InitStartup ==
    /\ connectionState = InitialState
    /\ coinName = "bitcoin"
    /\ frame = [p \in Callers |-> IdleFrame]
    /\ opsLeft = [p \in Callers |-> 0]
    /\ probeCompleted = FALSE
    /\ connects = 0
    /\ staleTimers = 0
    /\ classified = NoClassification
    /\ mcp \in {[Registry(config, "new", <<>>, 0, NoJsError, NoAnswer)
                     EXCEPT !.startup = Startup("new", 0, <<>>)] : config \in Configs}
    /\ validation = NoValidation

NextStartup ==
    \/ StartMcpServer
    \/ ConnectReturns
    \/ ProbeSettles
    \/ FetchRejects("c1")
    \/ TimeoutFires("c1")
    \/ HeadersArrive("c1")
    \/ BodyMalformed("c1")
    \/ BodyError("c1")
    \/ BodyResult("c1")
    \/ BackoffElapses("c1")
    \/ StaleTimerFires

SpecStartup == InitStartup /\ [][NextStartup]_vars

-----------------------------------------------------------------------------
(* Vocabulary of the properties *)

\* the events of the latest makeRequest in a trace: from its last "call" on
LastRequest(t) ==
    LET i == CHOOSE k \in 1..Len(t) :
                 /\ t[k][1] = "call"
                 /\ \A j \in (k + 1)..Len(t) : t[j][1] # "call"
    IN SubSeq(t, i, Len(t))

\* the events of one kind in a trace
Events(t, kind) == SelectSeq(t, LAMBDA e : e[1] = kind)

Last(q) == q[Len(q)]

\* the operation of frame f has ended because its makeRequest raised an error
RequestFailed(f) == f.pc = "done" /\ f.lastErr # NoError

RetryableClasses == {"RpcConnectionError", "DaemonSyncError"}

\* the taxonomy kinds that are not retried
TerminalClasses ==
    {"CryptoDaemonError", "InsufficientFundsError", "InvalidAddressError",
     "WalletLockError", "FeeEstimationError"}

-----------------------------------------------------------------------------
(* C1 .. C10: retry, probe and connection state *)

\* C1: a makeRequest whose every attempt fails with an RpcConnectionError or
\* a DaemonSyncError makes exactly 3 attempts, sleeps 1 x RETRY_DELAY after
\* the first and 2 x RETRY_DELAY after the second, nothing before the first
\* and nothing after the third, and raises the error of the third attempt.
C1_RetryBound ==
    \A p \in Callers :
        LET f == frame[p] IN
        (RequestFailed(f) /\ f.allRetryable) =>
            /\ LastRequest(f.trace) =
                   << <<"call", 0>>,
                      <<"attempt", 1>>, <<"warn", 1>>, <<"delay", 1 * RETRY_DELAY>>,
                      <<"attempt", 2>>, <<"warn", 2>>, <<"delay", 2 * RETRY_DELAY>>,
                      <<"attempt", 3>>, <<"warn", 3>>, <<"log", 0>> >>
            /\ Last(f.rpcLog).error = f.lastErr
            /\ f.error = f.lastErr

\* a call has ended after three retryable failures, the last one a sync error
C1_Witness ==
    \E p \in Callers :
        /\ RequestFailed(frame[p])
        /\ frame[p].allRetryable
        /\ frame[p].attempt = 3
        /\ frame[p].lastErr.cls = "DaemonSyncError"

\* C2: an attempt k that fails with a taxonomy error other than
\* RpcConnectionError and DaemonSyncError ends the call at once: k attempts
\* were made, no backoff delay follows the k-th, and that error is raised.
C2_TerminalErrorEndsCall ==
    \A p \in Callers :
        LET f == frame[p]
            t == LastRequest(f.trace)
        IN f.lastErr.cls \in TerminalClasses =>
            /\ f.pc = "done"
            /\ ~f.ok
            /\ f.error = f.lastErr
            /\ Last(f.rpcLog).error = f.lastErr
            /\ Len(Events(t, "attempt")) = f.attempt
            /\ Len(Events(t, "delay")) = f.attempt - 1
            /\ SubSeq(t, Len(t) - 2, Len(t)) =
                   << <<"attempt", f.attempt>>, <<"warn", f.attempt>>, <<"log", 0>> >>
            /\ (f.allRetryable = FALSE)

\* a call has ended on an invalid-address error of its second attempt
C2_Witness ==
    \E p \in Callers :
        /\ frame[p].pc = "done"
        /\ frame[p].lastErr.cls = "InvalidAddressError"
        /\ frame[p].attempt = 2

\* C3 (as claimed): a call ends on a transport failure of fetch only when
\* that was the last allowed attempt, so an unreachable daemon is contacted
\* 3 times.
C3_TransportFailureRetried ==
    \A p \in Callers :
        (frame[p].pc = "done" /\ frame[p].lastErr.cls = "FetchError") =>
            Len(Events(LastRequest(frame[p].trace), "attempt")) = 3

\* C4 (as claimed): an operation invoked while the client is disconnected
\* sends the probe's getinfo before anything else.
C4_ProbeBeforeRequest ==
    \A p \in Callers :
        (frame[p].startState = "disconnected" /\ frame[p].sent # <<>>) =>
            frame[p].sent[1] = ProbeMethod

\* caller p's operation completes in this step
Completes(p) == frame[p].pc # "done" /\ frame'[p].pc = "done"

\* C5: in the step that completes a validateConnection, the state becomes
\* connected if the probe succeeded and disconnected if it failed.
C5_ProbeSetsState ==
    [][\A p \in Callers :
          (Completes(p) /\ frame'[p].op = "validateConnection") =>
              /\ (connectionState' = "connected") <=> frame'[p].ok
              /\ ~frame'[p].ok => connectionState' = "disconnected"]_vars

\* a probe on a connected client has failed its liveness check and left the
\* client disconnected
C5_Witness ==
    \E p \in Callers :
        /\ frame[p].pc = "done"
        /\ frame[p].op = "validateConnection"
        /\ frame[p].startState = "connected"
        /\ frame[p].error.cls = "DaemonSyncError"
        /\ frame[p].lastErr = NoError
        /\ connectionState = "disconnected"

\* C6: a probe whose getinfo request returned, with no or zero blocks or no
\* or zero connections in the result, fails with a DaemonSyncError carrying
\* the reported blocks and the reported headers, 0 for one that is absent.
C6_ProbeSyncError ==
    \A p \in Callers :
        LET f == frame[p] IN
        ( /\ f.pc = "done"
          /\ f.op = "validateConnection"
          /\ f.lastErr = NoError
          /\ (f.response.a \in {Undefined, 0} \/ f.response.b \in {Undefined, 0}) ) =>
            /\ ~f.ok
            /\ f.error.cls = "DaemonSyncError"
            /\ f.error.x = (IF f.response.a = Undefined THEN 0 ELSE f.response.a)
            /\ f.error.y = (IF f.response.c = Undefined THEN 0 ELSE f.response.c)

\* blocks = 100, connections = 0, no headers: the error carries 100 and 0
C6_Witness ==
    \E p \in Callers :
        /\ frame[p].pc = "done"
        /\ frame[p].op = "validateConnection"
        /\ frame[p].response = [a |-> 100, b |-> 0, c |-> Undefined]
        /\ frame[p].error.cls = "DaemonSyncError"
        /\ frame[p].error.x = 100
        /\ frame[p].error.y = 0

\* C7: until a validateConnection has completed, the client is disconnected.
C7_DisconnectedUntilProbed ==
    ~probeCompleted => connectionState = "disconnected"

\* a request has already succeeded and the first probe is about to complete
C7_Witness ==
    \E p \in Callers :
        /\ ~probeCompleted
        /\ frame[p].op = "validateConnection"
        /\ frame[p].pc = "json"
        /\ opsLeft[p] < MaxOps - 1
        /\ connectionState = "disconnected"

\* C8 (as claimed): once a request other than the probe, invoked on a
\* connected client, has ended in an RpcConnectionError or a DaemonSyncError,
\* the client is disconnected.
C8_RequestFailureDisconnects ==
    \A p \in Callers :
        ( /\ RequestFailed(frame[p])
          /\ frame[p].op # "validateConnection"
          /\ frame[p].startState = "connected"
          /\ frame[p].error.cls \in RetryableClasses ) =>
            connectionState = "disconnected"

\* C8 (amended): the step in which a request other than the probe ends in an
\* RpcConnectionError or a DaemonSyncError leaves the connection state as it
\* was; a connected client stays connected.
C8_RequestFailureKeepsState ==
    [][\A p \in Callers :
          ( /\ Completes(p)
            /\ RequestFailed(frame'[p])
            /\ frame'[p].op # "validateConnection"
            /\ frame'[p].error.cls \in RetryableClasses ) =>
              connectionState' = connectionState]_vars

\* a request on a connected client has ended in a connection error and the
\* client is still connected
C8_Witness ==
    \E p \in Callers :
        /\ RequestFailed(frame[p])
        /\ frame[p].op # "validateConnection"
        /\ frame[p].startState = "connected"
        /\ frame[p].error.cls = "RpcConnectionError"
        /\ connectionState = "connected"

\* C9: the connection state is one of disconnected and connected, and it
\* changes only in a step that completes a validateConnection; no other
\* operation changes it.
C9_StateChangesOnlyByProbe ==
    /\ [](connectionState \in {"disconnected", "connected"})
    /\ [][connectionState' # connectionState =>
              \E p \in Callers :
                  Completes(p) /\ frame'[p].op = "validateConnection"]_vars

\* the client was connected, then disconnected, and is connected again
C9_Witness == connects >= 2 /\ connectionState = "connected"

-----------------------------------------------------------------------------
(* C11 .. C20: classification, allow-list, registry, balance, timeouts,    *)
(* cancellation, concurrent calls                                          *)

\* the codes of the fixed table that map to one kind whatever the message
FixedTable ==
    [code \in {-6, -5, -4, -3} |->
        CASE code = -6 -> "InsufficientFundsError"
          [] code = -5 -> "InvalidAddressError"
          [] code = -4 -> "WalletLockError"
          [] code = -3 -> "FeeEstimationError"]

\* C11 (as claimed): mapRpcErrorToCustomError is total: for every code and
\* every message, absent included, it returns one error of the taxonomy and
\* does not throw; -6, -5, -4 and -3 give InsufficientFunds, InvalidAddress,
\* WalletLock and FeeEstimation, and a code outside the table gives the base
\* CryptoDaemonError carrying the message.
C11_ClassifyTotal ==
    classified.pc \notin {"idle", "ready"} =>
        /\ classified.pc = "returned"
        /\ classified.out.cls \in TaxonomyClasses
        /\ classified.code \in DOMAIN FixedTable =>
               classified.out.cls = FixedTable[classified.code]
        /\ classified.code \notin (DOMAIN FixedTable \cup {-1}) =>
               /\ classified.out.cls = "CryptoDaemonError"
               /\ classified.out.msg =
                      (IF classified.message = "undefined" THEN ""
                       ELSE classified.message)

\* C12 (as claimed): every HTTP request issued carries a method of RpcMethod,
\* and an executeCommand naming a method outside RpcMethod issues no request.
C12_OnlyAllowListedSent ==
    \A p \in Callers :
        /\ \A i \in 1..Len(frame[p].sent) : frame[p].sent[i] \in RpcMethod
        /\ (frame[p].op = "executeCommand" /\ frame[p].arg \notin RpcMethod) =>
               frame[p].sent = <<>>

\* the nicknames of a configuration, in the order of its daemons
ConfiguredNicknames(config) ==
    [i \in 1..Len(config.daemons) |-> config.daemons[i].nickname]

Range(q) == {q[i] : i \in 1..Len(q)}

NoRepeats(q) == \A i, j \in 1..Len(q) : q[i] = q[j] => i = j

\* C13: once the constructor has run on a configuration in which two
\* daemons share a nickname, it has thrown, the Map is empty and no
\* RpcClient has been built.
C13_DuplicateNicknameRejected ==
    ( /\ mcp.phase \in {"ready", "failed"}
      /\ mcp.config.hasDaemons
      /\ ~NoRepeats(ConfiguredNicknames(mcp.config)) ) =>
        /\ mcp.phase = "failed"
        /\ mcp.error # NoJsError
        /\ mcp.clients = <<>>
        /\ mcp.built = 0

\* two valid daemons with the same nickname: the constructor has thrown the
\* duplicate error and the Map is empty
C13_Witness ==
    /\ mcp.phase = "failed"
    /\ mcp.config.daemons =
           <<Daemon("bitcoin", "btc", GoodEndpoint), Daemon("zcash", "btc", GoodEndpoint)>>
    /\ mcp.error = JsError("Duplicate daemon nickname found", "btc")
    /\ mcp.clients = <<>>

\* C14: once the constructor has returned, the keys of the Map are the
\* configured nicknames, one RpcClient each; no later call changes the Map
\* or builds a client; and getClient of a nickname that is not configured
\* throws the not-found error.
C14_RegistryFixed ==
    /\ [](mcp.phase = "ready" =>
            /\ Range(MapKeys(mcp.clients)) = Range(ConfiguredNicknames(mcp.config))
            /\ mcp.built = Len(mcp.clients)
            /\ (mcp.answer.call = "getClient"
                 /\ mcp.answer.arg \notin Range(ConfiguredNicknames(mcp.config))) =>
                   /\ ~mcp.answer.found
                   /\ mcp.answer.error = JsError("Daemon not found", mcp.answer.arg))
    /\ [][mcp.phase = "ready" =>
              /\ mcp'.clients = mcp.clients
              /\ mcp'.built = mcp.built
              /\ mcp'.config = mcp.config]_vars

\* a registry of three daemons has been asked for a nickname it does not have
C14_Witness ==
    /\ mcp.phase = "ready"
    /\ Len(mcp.clients) = 3
    /\ mcp.answer.call = "getClient"
    /\ mcp.answer.arg = "doge"
    /\ ~mcp.answer.found

\* C15: getDaemons returns the configured nicknames in the order of the
\* configuration, each once, whenever it is called.
C15_DaemonsInRegistrationOrder ==
    mcp.answer.call = "getDaemons" =>
        /\ mcp.answer.names = ConfiguredNicknames(mcp.config)
        /\ NoRepeats(mcp.answer.names)
        /\ mcp.answer.error = NoJsError

\* three daemons registered in an order that is not the alphabetical one
C15_Witness ==
    /\ mcp.answer.call = "getDaemons"
    /\ mcp.answer.names = <<"zec", "btc", "ltc">>

\* C16 (as claimed): a getBalance whose request for the shielded balance
\* was answered by the daemon with an error of no known kind (such as
\* "Method not found") still returns, with shielded = 0; and a getBalance that
\* asked for the transparent balance alone returns what the daemon reported,
\* with shielded = 0.
C16_ShieldedFailureTolerated ==
    \A p \in Callers :
        LET f == frame[p] IN
        (f.op = "getBalance" /\ f.pc = "done") =>
            /\ (f.method = "z_gettotalbalance" /\ f.lastErr.cls = "CryptoDaemonError") =>
                   (f.ok /\ f.value.b = 0)
            /\ (f.method = "getbalance" /\ f.lastErr = NoError) =>
                   (f.ok /\ f.value = Value(f.response.a, 0, Undefined))

\* C17 (as claimed): as long as an attempt waits for the daemon, for the
\* status line or for the body, its timeout is pending, so that an attempt
\* the daemon leaves unanswered ends by the timeout.
C17_DeadlineCoversExchange ==
    \A p \in Callers :
        frame[p].pc \in {"fetch", "json"} => frame[p].timer

\* caller p starts an attempt in this step
StartsAttempt(p) ==
    Len(Events(frame'[p].trace, "attempt")) > Len(Events(frame[p].trace, "attempt"))

\* C18: every attempt starts with a timer of its own, armed in the step that
\* issues its fetch, whatever attempts and delays came before; an attempt is
\* timed out only by its own pending timer; and the firing of a timer left
\* over from an earlier attempt changes nothing of any call.
C18_FreshTimerPerAttempt ==
    [][/\ \A p \in Callers :
             /\ StartsAttempt(p) => (frame'[p].pc = "fetch" /\ frame'[p].timer)
             /\ ( /\ frame[p].pc = "fetch"
                  /\ frame'[p].pc # "fetch"
                  /\ frame'[p].lastErr = RpcConnectionError("Timeout") ) =>
                    (frame[p].timer /\ staleTimers' = staleTimers)
       /\ staleTimers' < staleTimers => frame' = frame]_vars

\* the third attempt of a call is in flight under its own timer while the
\* timer of an earlier call's attempt is still pending
C18_Witness ==
    \E p \in Callers :
        /\ staleTimers > 0
        /\ frame[p].pc = "fetch"
        /\ frame[p].attempt = 3
        /\ frame[p].timer

\* C19 (as claimed): once the caller has cancelled during a backoff delay,
\* the call sends no further attempt: it is still at the point where it was
\* cancelled or it has ended with an error.
C19_CancelAbortsRetry ==
    \A p \in Callers :
        frame[p].cancelled =>
            \/ frame[p].pc = "backoff" /\ Last(frame[p].trace)[1] = "delay"
            \/ frame[p].pc = "done" /\ ~frame[p].ok

\* C20: under any interleaving of the callers' calls of makeRequest, the
\* attempts of a call are numbered 1, 2, .. up to at most 3 and all carry
\* the call's own method; a call whose attempts all failed with retryable
\* errors has made all 3 of them; the one logRpcCall record of a call that
\* has ended names the call's method and carries the outcome of the call's
\* own last attempt; and a step of one call changes nothing of another.
C20_CallsIndependent ==
    /\ [](\A p \in Callers :
            LET f == frame[p] IN
            f.trace # <<>> =>
                /\ f.attempt \in 1..MAX_RETRIES
                /\ Events(f.trace, "attempt") = [k \in 1..f.attempt |-> <<"attempt", k>>]
                /\ f.sent = [k \in 1..f.attempt |-> f.arg]
                /\ (RequestFailed(f) /\ f.allRetryable) => f.attempt = MAX_RETRIES
                /\ f.pc # "done" => f.rpcLog = <<>>
                /\ f.pc = "done" =>
                       /\ Len(f.rpcLog) = 1
                       /\ f.rpcLog[1].method = f.arg
                       /\ f.rpcLog[1].success = (f.lastErr = NoError)
                       /\ f.rpcLog[1].success = f.ok
                       /\ f.rpcLog[1].error = (IF f.ok THEN NoError ELSE f.error)
                       /\ ~f.ok => f.error.msg = f.lastErr.msg)
    /\ [][\A p, q \in Callers :
              (p # q /\ frame'[p] # frame[p]) => frame'[q] = frame[q]]_vars

\* one call has ended after three failed attempts while the call of the
\* other caller, begun meanwhile, is at its second attempt
C20_Witness ==
    /\ RequestFailed(frame["c1"])
    /\ frame["c1"].allRetryable
    /\ frame["c1"].attempt = 3
    /\ frame["c1"].arg = "getinfo"
    /\ frame["c2"].pc = "fetch"
    /\ frame["c2"].attempt = 2
    /\ frame["c2"].arg = "sendtoaddress"

-----------------------------------------------------------------------------
(* C21 .. C30: responses, raised errors, configuration, status, logging,   *)
(* sending                                                                  *)

\* C21: an attempt answered with a status outside 200..299 has ended, its
\* body unread, in the RpcConnectionError that carries the status, and it is
\* retried as every RpcConnectionError is: a delay follows unless it was the
\* third attempt, after which the call ends in that error.
C21_HttpStatusIsConnectionError ==
    \A p \in Callers :
        LET f == frame[p] IN
        /\ f.pc = "json" => f.status \in 200..299
        /\ (f.status # 0 /\ f.status \notin 200..299) =>
               /\ f.lastErr = Err("RpcConnectionError", "HTTP Error", f.status, 0)
               /\ Last(Events(f.trace, "warn")) = <<"warn", f.attempt>>
               /\ f.attempt < MAX_RETRIES =>
                      /\ f.pc = "backoff"
                      /\ Last(f.trace) = <<"delay", RETRY_DELAY * f.attempt>>
               /\ f.attempt = MAX_RETRIES =>
                      /\ f.pc = "done"
                      /\ ~f.ok
                      /\ (f.op # "validateConnection" => f.error = f.lastErr)

\* a call has ended after a 404 and two 500
C21_Witness ==
    \E p \in Callers :
        /\ frame[p].pc = "done"
        /\ frame[p].attempt = 3
        /\ frame[p].status = 500
        /\ frame[p].error = Err("RpcConnectionError", "HTTP Error", 500, 0)
        /\ Len(Events(LastRequest(frame[p].trace), "delay")) = 2

\* C22: an attempt whose 2xx body carries an error has ended in an error of
\* the taxonomy, the one mapRpcErrorToCustomError gives for the body's code
\* and message, whether or not the body carries a result too; an attempt
\* whose body carries no error has ended as the success of its request.
C22_ErrorBodyClassified ==
    \A p \in Callers :
        LET f == frame[p] IN
        /\ f.body.kind = "error" =>
               /\ f.lastErr.cls \in TaxonomyClasses
               /\ f.lastErr = mapRpcErrorToCustomError(f.body.code, f.body.message)
               /\ Last(Events(f.trace, "warn")) = <<"warn", f.attempt>>
        /\ f.body.kind = "result" =>
               /\ f.lastErr = NoError
               /\ f.response \in ResultsOf(f.method)
               /\ Last(Events(f.trace, "log")) = <<"log", 1>>

\* C23: every record given to logRpcCall for a request that failed, and so
\* every error a makeRequest raised, is of the taxonomy; the error is the
\* last attempt's own if that is of the taxonomy and the RpcConnectionError
\* made of its message otherwise; a makeRequest that returned had its last
\* attempt answered with a result and raised nothing.
C23_RaisesTaxonomyError ==
    \A p \in Callers :
        LET f == frame[p] IN
        /\ \A i \in DOMAIN f.rpcLog :
               ~f.rpcLog[i].success => f.rpcLog[i].error.cls \in TaxonomyClasses
        /\ (f.pc = "done" /\ f.op \in {"makeRequest", "executeCommand"}) =>
               /\ f.ok <=> (f.lastErr = NoError)
               /\ f.ok => (f.body.kind = "result" /\ f.error = NoError)
               /\ ~f.ok =>
                      /\ f.error.cls \in TaxonomyClasses
                      /\ Last(f.rpcLog) = LogRecord(f.method, FALSE, f.error)
                      /\ f.lastErr.cls \in TaxonomyClasses => f.error = f.lastErr
                      /\ f.lastErr.cls \notin TaxonomyClasses =>
                             f.error = RpcConnectionError(f.lastErr.msg)
                      /\ Last(Events(f.trace, "warn")) = <<"warn", f.attempt>>

\* a makeRequest has raised the RpcConnectionError made of a malformed body
\* at its third attempt, after two attempts that failed otherwise
C23_Witness ==
    \E p \in Callers :
        /\ frame[p].pc = "done"
        /\ frame[p].op = "makeRequest"
        /\ frame[p].attempt = MAX_RETRIES
        /\ frame[p].body.kind = "malformed"
        /\ frame[p].lastErr.cls = "SyntaxError"
        /\ frame[p].error.cls = "RpcConnectionError"

\* the operations built on makeRequest
HigherLevel == {"sendCoins", "zSendCoins", "getBalance", "checkStatus", "executeCommand"}

\* the operation of frame f raised the error that its latest makeRequest raised
RaisedByRequest(f) ==
    /\ f.rpcLog # <<>>
    /\ Last(f.rpcLog) = LogRecord(f.method, FALSE, f.error)
    /\ f.error = Thrown(f.lastErr)

C28_SyncedIffBlocksReachHeaders ==
    \A p \in Callers :
        LET f == frame[p] IN
        (f.pc = "done" /\ f.op = "checkStatus") =>
            /\ f.ok =>
                   /\ f.value.a = f.held.a
                   /\ f.value.b \in {0, 1}
                   /\ f.value.b = 1 <=>
                          (f.held.a # Undefined /\ f.held.b # Undefined
                           /\ f.held.a >= f.held.b)
                   /\ f.held \in ResultsOf("getblockchaininfo")
            /\ (f.method = "getnetworkinfo" /\ f.lastErr = NoError /\ f.body.hasResult)
                   => f.ok

\* checkStatus has returned synced = false for a daemon at block 99 of 100
C28_Witness ==
    \E p \in Callers :
        /\ frame[p].pc = "done"
        /\ frame[p].op = "checkStatus"
        /\ frame[p].ok
        /\ frame[p].held.a = 99
        /\ frame[p].held.b = 100
        /\ frame[p].value.b = 0

\* a string of decimal digits, at least one
AllDigits(chars) ==
    chars # <<>> /\ \A i \in DOMAIN chars : DigitValue(chars[i]) # NaN

\* an address of the form host:port with a host and a port in [1,65535]
WellFormedAddress(chars) ==
    LET parts == split(chars) IN
    /\ Len(parts) = 2
    /\ parts[1] # <<>>
    /\ AllDigits(parts[2])
    /\ parseInt(parts[2]) \in 1..65535

\* C25: validateDaemonConfig returns exactly for the descriptors whose coin
\* name, nickname, user and password are not empty and whose endpoint is a
\* well-formed address; for every other descriptor it throws.
C25_DescriptorValidated ==
    (validation.fn = "validateDaemonConfig" /\ validation.pc \notin {"idle", "ready"}) =>
        LET d == validation.daemon IN
        (validation.pc = "returned") <=>
            /\ d.coinName # ""
            /\ d.nickname # ""
            /\ d.rpcUser # ""
            /\ d.rpcPassword # ""
            /\ WellFormedAddress(d.rpcEndpoint)

\* /Missing required field/.test(message) over the messages the constructor
\* of CryptoDaemonMCP throws: none of them has the text
MatchesMissingRequiredField(message) == message \in {}

\* C26: when the first daemon of the configuration lacks its coin name or
\* its nickname, the construction that startMcpServer runs has failed with a
\* message matching /Missing required field/, with no client built.
C26_MissingFieldRejected ==
    (/\ mcp.phase \notin {"none", "new"}
     /\ mcp.config.hasDaemons
     /\ Len(mcp.config.daemons) > 0
     /\ (mcp.config.daemons[1].coinName = "" \/ mcp.config.daemons[1].nickname = "")) =>
        /\ mcp.phase = "failed"
        /\ mcp.built = 0
        /\ mcp.clients = <<>>
        /\ MatchesMissingRequiredField(mcp.error.message)

\* C27: validateConfig throws for a configuration without a daemons array
\* and for one whose array is empty, each with its own message, and returns
\* exactly for the arrays of one or more descriptors that validateDaemonConfig
\* accepts and whose nicknames are pairwise distinct.
C27_ConfigValidated ==
    (validation.fn = "validateConfig" /\ validation.pc \notin {"idle", "ready"}) =>
        LET config == validation.config
            daemons == config.daemons
        IN /\ ~config.hasDaemons =>
                  /\ validation.pc = "threw"
                  /\ validation.error =
                         JsError("Configuration must include a \"daemons\" array", "")
           /\ (config.hasDaemons /\ daemons = <<>>) =>
                  /\ validation.pc = "threw"
                  /\ validation.error =
                         JsError("At least one daemon configuration is required", "")
           /\ (validation.pc = "returned") <=>
                  /\ config.hasDaemons
                  /\ Len(daemons) >= 1
                  /\ \A i \in DOMAIN daemons : validateDaemonConfig(daemons[i]) = NoJsError
                  /\ \A i, j \in DOMAIN daemons :
                         i # j => daemons[i].nickname # daemons[j].nickname

\* validateConfig has returned for two descriptors of different nicknames
C27_Witness ==
    /\ validation.fn = "validateConfig"
    /\ validation.pc = "returned"
    /\ Len(validation.config.daemons) = 2
    /\ validation.config.daemons[1].nickname # validation.config.daemons[2].nickname

\* C29: no line the Logger wrote has a string parameter that matches one of
\* the sensitive patterns, and every such parameter of the call stands as
\* '***REDACTED***' in each line, at its place.
C29_NoSensitiveParamLogged ==
    \A p \in Callers :
        \A i \in DOMAIN frame[p].written :
            LET logged == frame[p].written[i].params IN
            /\ Len(logged) = Len(frame[p].params)
            /\ \A k \in DOMAIN logged :
                   /\ logged[k].type = "string" => ~containsSensitiveData(logged[k].chars)
                   /\ (frame[p].params[k].type = "string"
                       /\ containsSensitiveData(frame[p].params[k].chars))
                          => logged[k] = Redacted

\* C30: once an attempt of sendCoins' sendtoaddress has timed out, the
\* daemon having possibly accepted the send, no further attempt of that
\* request is in flight: sendtoaddress has been sent once only.
C30_SendDeliveredOnce ==
    \A p \in Callers :
        LET f == frame[p] IN
        (/\ f.op = "sendCoins"
         /\ f.method = "sendtoaddress"
         /\ f.lastErr = RpcConnectionError("Timeout")) =>
            /\ f.pc \notin {"fetch", "json"}
            /\ Len(SelectSeq(f.sent, LAMBDA m : m = "sendtoaddress")) <= 1

-----------------------------------------------------------------------------
(* C31 .. C37: sendCoins, logging, probes, startup, tool handlers           *)

\* the number of requests for method m among those sent
Sends(sent, m) == Len(SelectSeq(sent, LAMBDA x : x = m))

NumberedInOrder(t, kind) ==
    \A i \in DOMAIN Events(t, kind) : Events(t, kind)[i] = <<kind, i>>

\* C32: the records given to logRpcCall are, in order, those of the
\* makeRequest invocations that have ended, one each: a record is the last
\* event of its invocation, no invocation still under way has one, its
\* success flag is set exactly when the invocation returned, and it carries
\* the raised error otherwise; within an invocation the attempts and the
\* warnings are numbered 1, 2, ... and every attempt but one that succeeded
\* or is under way has its warning.
C32_OneRecordAfterLastAttempt ==
    \A p \in Callers :
        LET f == frame[p]
            logs == Events(f.trace, "log")
            t == LastRequest(f.trace)
            ended == Len(Events(t, "log")) = 1
        IN f.trace # <<>> =>
           /\ Len(logs) = Len(f.rpcLog)
           /\ \A i \in DOMAIN logs :
                  /\ f.rpcLog[i].success <=> (logs[i] = <<"log", 1>>)
                  /\ f.rpcLog[i].success <=> (f.rpcLog[i].error = NoError)
           /\ Len(Events(t, "log")) <= 1
           /\ ended <=> (f.pc \in {"done", "idle"})
           /\ ended => (Last(t)[1] = "log" /\ Last(f.rpcLog).method = f.method)
           /\ NumberedInOrder(t, "attempt")
           /\ NumberedInOrder(t, "warn")
           /\ Len(Events(t, "attempt")) = f.attempt
           /\ Len(Events(t, "warn")) =
                  (IF f.pc \in {"fetch", "json"} \/ (ended /\ Last(t) = <<"log", 1>>)
                   THEN f.attempt - 1 ELSE f.attempt)
           /\ (f.pc = "done" /\ f.op \in {"makeRequest", "executeCommand"}) =>
                  Last(f.rpcLog) = LogRecord(f.method, f.ok, f.error)

\* a makeRequest has returned at its third attempt: two warnings, then one
\* record of success
C32_Witness ==
    \E p \in Callers :
        /\ frame[p].pc = "done"
        /\ frame[p].op = "makeRequest"
        /\ frame[p].ok
        /\ Events(frame[p].trace, "warn") = <<(<<"warn", 1>>), (<<"warn", 2>>)>>
        /\ frame[p].rpcLog = <<LogRecord(frame[p].method, TRUE, NoError)>>

\* C33: a probe that has failed by its own liveness check, its getinfo
\* request having returned, has issued no request after the one that
\* returned: the request's record of success is the last event, and one
\* request was sent when the first attempt returned.  An attempt answered
\* with the error body of code -1 and a message containing 'sync' has ended
\* in a DaemonSyncError, followed by the delay before the next attempt, and
\* by the end of the call in that error only at the third attempt.
C33_ProbeSyncErrorNotRetried ==
    \A p \in Callers :
        LET f == frame[p] IN
        /\ (/\ f.pc = "done"
            /\ f.op = "validateConnection"
            /\ f.lastErr = NoError
            /\ ~f.ok) =>
               /\ f.error.cls = "DaemonSyncError"
               /\ Last(f.trace) = <<"log", 1>>
               /\ Len(f.sent) = f.attempt
               /\ Len(Events(f.trace, "call")) = 1
               /\ f.attempt = 1 => f.sent = <<ProbeMethod>>
        /\ (/\ f.body.kind = "error"
            /\ f.body.code = 0 - 1
            /\ IncludesSync(f.body.message)) =>
               /\ f.lastErr.cls = "DaemonSyncError"
               /\ f.attempt < MAX_RETRIES =>
                      /\ f.pc = "backoff"
                      /\ Last(f.trace) = <<"delay", RETRY_DELAY * f.attempt>>
               /\ f.attempt = MAX_RETRIES =>
                      /\ f.pc = "done"
                      /\ ~f.ok
                      /\ f.error = f.lastErr
                      /\ Len(Events(LastRequest(f.trace), "attempt")) = MAX_RETRIES

\* a probe whose only request returned a result without connections has
\* failed with its DaemonSyncError
C33_Witness ==
    \E p \in Callers :
        /\ frame[p].pc = "done"
        /\ frame[p].op = "validateConnection"
        /\ frame[p].lastErr = NoError
        /\ frame[p].error.cls = "DaemonSyncError"
        /\ frame[p].sent = <<ProbeMethod>>
        /\ frame[p].response.b = Undefined


\* the state a probe's outcome stands for
OutcomeState(f) == IF f.ok THEN "connected" ELSE "disconnected"

\* C34: with several probes in flight on the one client the connection state
\* is always one of its two legal values; each step that ends a probe sets it
\* to that probe's outcome and no other step changes it, so once all probes
\* have ended it stands at the outcome of the probe that ended last, in
\* whatever order the probes were started.
C34_LastProbeDecidesState ==
    /\ [](connectionState \in {"connected", "disconnected"})
    /\ [][ /\ \A p \in Callers :
                Completes(p) => connectionState' = OutcomeState(frame'[p])
           /\ (\A p \in Callers : ~Completes(p))
                => connectionState' = connectionState ]_vars

\* both probes have ended with different outcomes, and the state is that of
\* the successful one although the client had been left disconnected before
C34_Witness ==
    /\ \A p \in Callers : frame[p].pc = "done" /\ frame[p].op = "validateConnection"
    /\ frame["c1"].ok /\ ~frame["c2"].ok
    /\ frame["c1"].startState = "disconnected"
    /\ frame["c2"].startState = "disconnected"
    /\ connectionState = "connected"


\* the nicknames of the configured daemons, in the order of the configuration
Registered == ConfiguredNicknames(mcp.config)

\* the events of the given kinds among the events of the startup
StartupEvents(kinds) == SelectSeq(mcp.startup.events, LAMBDA e : e[1] \in kinds)

\* C35: startMcpServer probes every registered daemon exactly once, one
\* after another in registration order, after the tools are registered and
\* the transport is connected; each probe is logged when it settles, a
\* failed one as an error, and a failed probe is followed by the next probe
\* or by the return of the server: startMcpServer fails only when the
\* constructor of the registry throws, before any probe.
C35_StartupProbesInOrder ==
    /\ [](LET s == mcp.startup
              E == s.events
              probes == StartupEvents({"probe"})
              logs == StartupEvents({"info", "error"})
          IN /\ s.stage = "failed" =>
                    mcp.phase = "failed" /\ probes = <<>> /\ frame["c1"].sent = <<>>
             /\ s.stage \in {"connecting", "probing", "started"} =>
                    /\ mcp.phase = "ready"
                    /\ SubSeq(E, 1, 3) =
                           <<Event("starting", ""), Event("tools", ""), Event("connect", "")>>
                    /\ Len(probes) <= Len(Registered)
                    /\ \A k \in DOMAIN probes : probes[k] = Event("probe", Registered[k])
                    /\ \A k \in DOMAIN logs : logs[k][2] = Registered[k]
                    /\ \A j \in 4..Len(E) :
                           \/ E[j][1] = "started" /\ j = Len(E)
                           \/ E[j][1] = "probe" /\ j % 2 = 0
                           \/ E[j][1] \in {"info", "error"} /\ j % 2 = 1
             /\ s.stage = "connecting" => Len(E) = 3 /\ frame["c1"].sent = <<>>
             /\ s.stage = "probing" =>
                    /\ Len(probes) = s.next
                    /\ Len(logs) = s.next - 1
                    /\ E[Len(E)] = Event("probe", Registered[s.next])
                    /\ frame["c1"].op = "validateConnection"
                    /\ frame["c1"].sent # <<>>
                    /\ \A k \in DOMAIN frame["c1"].sent : frame["c1"].sent[k] = ProbeMethod
                    /\ Sends(frame["c1"].trace, <<"call", 0>>) = 1
             /\ s.stage = "started" =>
                    /\ Len(probes) = Len(Registered)
                    /\ Len(logs) = Len(Registered)
                    /\ E[Len(E)] = Event("started", ""))
    /\ [][(/\ mcp.startup.stage = "probing"
           /\ frame["c1"].pc = "done"
           /\ mcp' # mcp) =>
              LET s == mcp.startup IN
              /\ mcp'.startup.events[Len(s.events) + 1] =
                     Event(IF frame["c1"].ok THEN "info" ELSE "error", Registered[s.next])
              /\ mcp'.startup.stage =
                     IF s.next < Len(Registered) THEN "probing" ELSE "started"]_vars

\* the server has started with three daemons, the probes of the first and
\* of the third having failed
C35_Witness ==
    /\ mcp.startup.stage = "started"
    /\ Registered = <<"zec", "btc", "ltc">>
    /\ StartupEvents({"info", "error"}) =
           <<Event("error", "zec"), Event("info", "btc"), Event("error", "ltc")>>


Tools == {"execute-command", "send-coins", "zsend-coins", "get-balance", "check-status"}

\* C36: a call of a tool never ends in an error thrown by its handler.  When
\* the client's operation failed at a request, or threw an error of its own,
\* or the nickname has no client, the handler returns a result with isError
\* whose text is the tool's prefix and the message of that error; a call
\* with an unknown nickname sends no request.
C36_ToolErrorsBecomeResults ==
    \A p \in Callers :
        LET f == frame[p] IN
        f.tool # "" =>
            /\ f.tool \in Tools
            /\ f.pc = "done" => f.ok
            /\ f.isError =>
                   /\ f.pc \in {"done", "idle"}
                   /\ InstanceOfError(f.error)
                   /\ f.errorText = <<ErrorPrefix(f.tool), f.error.msg>>
            /\ (f.pc \in {"done", "idle"} /\ f.lastErr # NoError) =>
                   f.isError /\ f.error = Thrown(f.lastErr)
            /\ (f.pc \in {"done", "idle"} /\ ~f.isError) =>
                   /\ f.rpcLog # <<>>
                   /\ \A k \in DOMAIN f.rpcLog : f.rpcLog[k].success
            /\ ~MapHas(mcp.clients, f.daemon) =>
                   /\ f.pc \in {"done", "idle"}
                   /\ f.isError
                   /\ f.error = Err("Error", "Daemon not found", 0, 0)
                   /\ f.sent = <<>>
                   /\ f.trace = <<>>

\* the get-balance tool has returned an error result for a request that the
\* daemon answered with an error body classified as a locked wallet
C36_Witness ==
    /\ frame["c1"].tool = "get-balance"
    /\ frame["c1"].pc = "done"
    /\ frame["c1"].isError
    /\ frame["c1"].error.cls = "WalletLockError"
    /\ frame["c1"].sent # <<>>


====
